---- MODULE Spec2Model ----
(***************************************************************************)
(* Model of actividad-web: the activity tracker (app/tracker.py), the      *)
(* privacy filter (app/privacy.py), the SQLite store (app/db.py) and the   *)
(* rule-management handlers of app/main.py.                                *)
(*                                                                         *)
(* Text (app labels, titles, source tags, patterns) is a sequence of       *)
(* one-character strings, so that strip, casefold and substring search are *)
(* computed as Python computes them.  Timestamps are whole seconds.        *)
(***************************************************************************)
EXTENDS Integers, Sequences, FiniteSets, TLC

(* ------------------------------ bounds --------------------------------- *)

\* number of seconds the awake (monotonic) clock may advance
MaxMono == 1

\* number of suspend/resume cycles of the machine
MaxSuspends == 1

\* cap of the privacy-exclusion counter
MaxExcluded == 1

\* number of rows the sessions table may hold
MaxSessions == 2

\* number of rule ids the privacy_rules table may hand out
MaxRuleId == 2

(* ------------------------------- text ---------------------------------- *)

UpperChars == <<"A","B","C","D","E","F","G","H","I","J","K","L","M",
                "N","O","P","Q","R","S","T","U","V","W","X","Y","Z">>

LowerChars == <<"a","b","c","d","e","f","g","h","i","j","k","l","m",
                "n","o","p","q","r","s","t","u","v","w","x","y","z">>

\* str.casefold() / str.lower() of one character
FoldChar(c) ==
    IF \E i \in 1..Len(UpperChars) : UpperChars[i] = c
    THEN LowerChars[CHOOSE i \in 1..Len(UpperChars) : UpperChars[i] = c]
    ELSE c

Casefold(s) == [i \in 1..Len(s) |-> FoldChar(s[i])]

RECURSIVE LStrip(_)
LStrip(s) == IF s # <<>> /\ Head(s) = " " THEN LStrip(Tail(s)) ELSE s

RECURSIVE RStrip(_)
RStrip(s) ==
    IF s # <<>> /\ s[Len(s)] = " " THEN RStrip(SubSeq(s, 1, Len(s) - 1)) ELSE s

\* str.strip()
Strip(s) == RStrip(LStrip(s))

\* `sub in s`
Contains(sub, s) ==
    \E i \in 0..(Len(s) - Len(sub)) : SubSeq(s, i + 1, i + Len(sub)) = sub

(* --------------------------- program constants ------------------------- *)

None == [kind |-> "None"]

\* Python None for an optional number
Nil == -1

Proceso == <<"P","r","o","c","e","s","o">>

DesconocidoFolded == <<"d","e","s","c","o","n","o","c","i","d","o">>

ProcesoFolded == <<"p","r","o","c","e","s","o">>

Inactivo == <<"I","n","a","c","t","i","v","o">>

IdleSource == <<"i","d","l","e">>

IdleSuffix == <<":","i","d","l","e">>

SleepApp == <<"S","u","s","p","e","n","s","i","ó","n","/",
              "H","i","b","e","r","n","a","c","i","ó","n">>

SleepSource == <<"s","l","e","e","p">>

idle_threshold_seconds == 60

effective_idle_seconds == 8

sleep_gap_seconds == 90

(* ------------------------------ the store ------------------------------ *)

\* _normalize_app_label comparing with "desconocido" without casefold()
NormalizeAppLabelExact(app) ==
    LET value == Strip(app)
    IN  IF value = <<>> THEN Proceso
        ELSE IF value = DesconocidoFolded THEN Proceso
        ELSE value

NormalizeAppLabel(app) ==
    LET value == Strip(app)
    IN  IF value = <<>> THEN Proceso
        ELSE IF Casefold(value) = DesconocidoFolded THEN Proceso
        ELSE value

SessionRow(start_ts, end_ts, app, title, source) ==
    [start_ts |-> start_ts, end_ts |-> end_ts, app |-> app,
     title |-> title, source |-> source]

\* insert_session without its first two lines
InsertSessionUnchecked(rows, start_ts, end_ts, app, title, source) ==
    Append(rows, SessionRow(start_ts, end_ts, NormalizeAppLabel(app), title, source))

InsertSession(rows, start_ts, end_ts, app, title, source) ==
    IF end_ts <= start_ts
    THEN rows
    ELSE Append(rows, SessionRow(start_ts, end_ts, NormalizeAppLabel(app), title, source))

\* the loop of bulk_insert_sessions with `break` where the code has `continue`
RECURSIVE BulkNormalizedRowsStops(_)
BulkNormalizedRowsStops(rows) ==
    IF rows = <<>> THEN <<>>
    ELSE LET r == Head(rows)
         IN  IF r.end_ts <= r.start_ts
             THEN <<>>
             ELSE <<SessionRow(r.start_ts, r.end_ts, NormalizeAppLabel(r.app),
                               r.title, r.source)>>
                  \o BulkNormalizedRowsStops(Tail(rows))

RECURSIVE BulkNormalizedRows(_)
BulkNormalizedRows(rows) ==
    IF rows = <<>> THEN <<>>
    ELSE LET r == Head(rows)
         IN  IF r.end_ts <= r.start_ts
             THEN BulkNormalizedRows(Tail(rows))
             ELSE <<SessionRow(r.start_ts, r.end_ts, NormalizeAppLabel(r.app),
                               r.title, r.source)>>
                  \o BulkNormalizedRows(Tail(rows))

\* bulk_insert_sessions: the table afterwards and the returned count
BulkInsertSessions(table, rows) ==
    LET normalized_rows == BulkNormalizedRows(rows)
    IN  [sessions |-> table \o normalized_rows, inserted |-> Len(normalized_rows)]

SinCategoria == <<"S","i","n"," ","c","a","t","e","g","o","r","í","a">>

MaxCategoryLen == 64

NormalizeCategoryLabel(category) ==
    LET value == Strip(category)
    IN  IF value = <<>> THEN SinCategoria
        ELSE IF Len(value) > MaxCategoryLen
        THEN RStrip(SubSeq(value, 1, MaxCategoryLen))
        ELSE value

CategoryRow(app, category) == [app |-> app, category |-> category]

\* set_app_category: INSERT ... ON CONFLICT(app) DO UPDATE on the table,
\* a set of rows with the app as key
SetAppCategory(table, app, category) ==
    LET app_norm == NormalizeAppLabel(app)
    IN  {r \in table : r.app # app_norm}
            \cup {CategoryRow(app_norm, NormalizeCategoryLabel(category))}

\* bulk_set_app_categories: the table afterwards and the returned count
RECURSIVE BulkSetAppCategories(_, _)
BulkSetAppCategories(table, entries) ==
    IF entries = <<>> THEN [categories |-> table, saved |-> 0]
    ELSE LET app_norm == Strip(Head(entries).app)
         IN  IF app_norm = <<>>
             THEN BulkSetAppCategories(table, Tail(entries))
             ELSE LET r == BulkSetAppCategories(
                               SetAppCategory(table, app_norm, Head(entries).category),
                               Tail(entries))
                  IN  [categories |-> r.categories, saved |-> r.saved + 1]

(* --------------------------- privacy rules ----------------------------- *)

ScopeApp == <<"a","p","p">>

ScopeTitle == <<"t","i","t","l","e">>

ModeContains == <<"c","o","n","t","a","i","n","s">>

ModeExact == <<"e","x","a","c","t">>

ModeRegex == <<"r","e","g","e","x">>

ValueError == [kind |-> "ValueError"]

NormalizeRuleScope(scope) ==
    LET value == Casefold(Strip(scope))
    IN  IF value \in {ScopeApp, ScopeTitle} THEN [value |-> value] ELSE ValueError

NormalizeMatchMode(match_mode) ==
    LET value == Casefold(Strip(match_mode))
    IN  IF value \in {ModeContains, ModeExact, ModeRegex}
        THEN [value |-> value] ELSE ValueError

MaxPatternLen == 200

NormalizeRulePattern(pattern) ==
    LET value == Strip(pattern)
    IN  IF value = <<>> THEN ValueError
        ELSE IF Len(value) > MaxPatternLen
        THEN [value |-> RStrip(SubSeq(value, 1, MaxPatternLen))]
        ELSE [value |-> value]

\* re.compile succeeds: in the modelled pattern language (letters, digits,
\* blanks, ".", "*" and "(") a pattern is malformed exactly when it holds a
\* "(", which is then an unterminated group, or a "*" with nothing to repeat
RegexCompiles(pattern) ==
    \A i \in 1..Len(pattern) :
        /\ pattern[i] # "("
        /\ pattern[i] = "*" => (i > 1 /\ pattern[i - 1] # "*")

\* re.compile raises OverflowError, which is not an re.error: the pattern
\* holds a repetition count "{n}" of eleven or more digits, which is above
\* MAXREPEAT; the modelled patterns hold "{" in such counts only
RegexOverflows(pattern) ==
    \E i, j \in 1..Len(pattern) :
        /\ i > 1
        /\ pattern[i] = "{"
        /\ pattern[j] = "}"
        /\ j - i > 11
        /\ pattern[i + 1] # "0"
        /\ \A k \in (i + 1)..(j - 1) :
              pattern[k] \in {"0","1","2","3","4","5","6","7","8","9"}

\* the pattern matches a prefix of the value, "." being any character and
\* "x*" any number of x, letters compared without case
RECURSIVE RegexMatchesPrefix(_, _)
RegexMatchesPrefix(pattern, value) ==
    IF pattern = <<>> THEN TRUE
    ELSE LET here == /\ value # <<>>
                     /\ \/ pattern[1] = "."
                        \/ FoldChar(pattern[1]) = FoldChar(value[1])
         IN  IF Len(pattern) >= 2 /\ pattern[2] = "*"
             THEN \/ RegexMatchesPrefix(SubSeq(pattern, 3, Len(pattern)), value)
                  \/ here /\ RegexMatchesPrefix(pattern, Tail(value))
             ELSE here /\ RegexMatchesPrefix(Tail(pattern), Tail(value))

\* regex.search(value) with re.IGNORECASE: unanchored
RegexSearch(pattern, value) ==
    \E i \in 0..Len(value) :
        RegexMatchesPrefix(pattern, SubSeq(value, i + 1, Len(value)))

\* ORDER BY enabled DESC, updated_ts DESC, id DESC
RuleBefore(a, b) ==
    \/ a.enabled /\ ~b.enabled
    \/ a.enabled = b.enabled /\ a.updated_ts > b.updated_ts
    \/ a.enabled = b.enabled /\ a.updated_ts = b.updated_ts /\ a.id > b.id

RECURSIVE SortRules(_)
SortRules(S) ==
    IF S = {} THEN <<>>
    ELSE LET first == CHOOSE r \in S : \A o \in S \ {r} : RuleBefore(r, o)
         IN  <<first>> \o SortRules(S \ {first})

ListPrivacyRules(table) == SortRules(table)

RuleRow(id, scope, match_mode, pattern, enabled, updated_ts) ==
    [id |-> id, scope |-> scope, match_mode |-> match_mode, pattern |-> pattern,
     enabled |-> enabled, updated_ts |-> updated_ts]

\* upsert_privacy_rule with a plain INSERT, on a table without the unique index
UpsertPrivacyRuleInserts(table, next_id, scope, pattern, match_mode, enabled, now_ts) ==
    LET scope_norm   == NormalizeRuleScope(scope)
        mode_norm    == NormalizeMatchMode(match_mode)
        pattern_norm == NormalizeRulePattern(pattern)
    IN  IF ValueError \in {scope_norm, mode_norm, pattern_norm}
        THEN ValueError
        ELSE [rules |-> table \cup {RuleRow(next_id, scope_norm.value, mode_norm.value,
                                            pattern_norm.value, enabled, now_ts)},
              next_id |-> next_id + 1]

\* upsert_privacy_rule: the table and the id counter afterwards, or ValueError
UpsertPrivacyRule(table, next_id, scope, pattern, match_mode, enabled, now_ts) ==
    LET scope_norm   == NormalizeRuleScope(scope)
        mode_norm    == NormalizeMatchMode(match_mode)
        pattern_norm == NormalizeRulePattern(pattern)
        SameKey(r)   == r.scope = scope_norm.value /\ r.match_mode = mode_norm.value
                        /\ r.pattern = pattern_norm.value
    IN  IF ValueError \in {scope_norm, mode_norm, pattern_norm}
        THEN ValueError
        ELSE IF \E r \in table : SameKey(r)
        THEN [rules |-> {IF SameKey(r)
                         THEN [r EXCEPT !.enabled = enabled, !.updated_ts = now_ts]
                         ELSE r : r \in table},
              next_id |-> next_id]
        ELSE [rules |-> table \cup {RuleRow(next_id, scope_norm.value, mode_norm.value,
                                            pattern_norm.value, enabled, now_ts)},
              next_id |-> next_id + 1]

SetPrivacyRuleEnabled(table, rule_id, enabled, now_ts) ==
    {IF r.id = rule_id THEN [r EXCEPT !.enabled = enabled, !.updated_ts = now_ts]
     ELSE r : r \in table}

DeletePrivacyRule(table, rule_id) == {r \in table : r.id # rule_id}

\* the loop body of update_rules: does the rule enter the compiled list
Compilable(rule) ==
    /\ rule.enabled
    /\ Strip(rule.pattern) # <<>>
    /\ (rule.match_mode = ModeRegex => RegexCompiles(Strip(rule.pattern)))

CompiledRule(rule) ==
    [rule |-> rule, normalized_pattern |-> Casefold(Strip(rule.pattern)),
     regex |-> IF rule.match_mode = ModeRegex THEN Strip(rule.pattern) ELSE <<>>]

\* update_rules without the test of rule.enabled
RECURSIVE UpdateRulesKeepsDisabled(_)
UpdateRulesKeepsDisabled(rules) ==
    IF rules = <<>> THEN <<>>
    ELSE IF /\ Strip(Head(rules).pattern) # <<>>
            /\ (Head(rules).match_mode = ModeRegex
                    => RegexCompiles(Strip(Head(rules).pattern)))
    THEN <<CompiledRule(Head(rules))>> \o UpdateRulesKeepsDisabled(Tail(rules))
    ELSE UpdateRulesKeepsDisabled(Tail(rules))

\* update_rules: the compiled list built from the rules, in their order
RECURSIVE UpdateRules(_)
UpdateRules(rules) ==
    IF rules = <<>> THEN <<>>
    ELSE IF Compilable(Head(rules))
    THEN <<CompiledRule(Head(rules))>> \o UpdateRules(Tail(rules))
    ELSE UpdateRules(Tail(rules))

\* the iteration without the test of an empty value
ItemMatchesEmptyValue(item, app, title) ==
    LET rule       == item.rule
        app_text   == Strip(app)
        title_text == Strip(title)
        value      == IF rule.scope = ScopeTitle THEN title_text ELSE app_text
        value_case == Casefold(value)
    IN  \/ rule.match_mode = ModeContains /\ Contains(item.normalized_pattern, value_case)
        \/ rule.match_mode = ModeExact /\ value_case = item.normalized_pattern
        \/ rule.match_mode = ModeRegex /\ RegexSearch(item.regex, value)

\* one iteration of match_reason's loop
ItemMatches(item, app, title) ==
    LET rule       == item.rule
        app_text   == Strip(app)
        title_text == Strip(title)
        value      == IF rule.scope = ScopeTitle THEN title_text ELSE app_text
        value_case == Casefold(value)
    IN  /\ value # <<>>
        /\ \/ rule.match_mode = ModeContains /\ Contains(item.normalized_pattern, value_case)
           \/ rule.match_mode = ModeExact /\ value_case = item.normalized_pattern
           \/ rule.match_mode = ModeRegex /\ RegexSearch(item.regex, value)

\* match_reason returning the last rule that matches
MatchReasonLast(compiled, app, title) ==
    IF \E i \in 1..Len(compiled) : ItemMatches(compiled[i], app, title)
    THEN compiled[CHOOSE i \in 1..Len(compiled) :
                     /\ ItemMatches(compiled[i], app, title)
                     /\ \A j \in (i + 1)..Len(compiled) :
                           ~ItemMatches(compiled[j], app, title)].rule
    ELSE None

MatchReason(compiled, app, title) ==
    IF \E i \in 1..Len(compiled) : ItemMatches(compiled[i], app, title)
    THEN compiled[CHOOSE i \in 1..Len(compiled) :
                     /\ ItemMatches(compiled[i], app, title)
                     /\ \A j \in 1..(i - 1) : ~ItemMatches(compiled[j], app, title)].rule
    ELSE None

IsExcluded(compiled, app, title) == MatchReason(compiled, app, title) # None

(* ------------------------- the tracker's decisions --------------------- *)

ActiveWindow(app, title, source) == [app |-> app, title |-> title, source |-> source]

CurrentSession(app, title, source, start_ts) ==
    [app |-> app, title |-> title, source |-> source, start_ts |-> start_ts]

Max(a, b) == IF a >= b THEN a ELSE b

\* _compute_sleep_gap: <<start_ts, end_ts>> of the gap, or <<Nil, Nil>>
ComputeSleepGap(now_wall, now_mono, last_wall, last_mono) ==
    IF last_wall = Nil \/ last_mono = Nil THEN <<Nil, Nil>>
    ELSE LET wall_delta        == Max(0, now_wall - last_wall)
             mono_delta        == Max(0, now_mono - last_mono)
             suspended_seconds == Max(0, wall_delta - mono_delta)
         IN  IF suspended_seconds < sleep_gap_seconds THEN <<Nil, Nil>>
             ELSE IF now_wall <= last_wall THEN <<Nil, Nil>>
             ELSE <<last_wall, now_wall>>

\* _flush_locked without its last line
FlushLockedKeepsCurrent(e, end_ts) ==
    IF e.current = None THEN e
    ELSE [e EXCEPT !.store = InsertSession(e.store, e.current.start_ts, end_ts,
                                           e.current.app, e.current.title,
                                           e.current.source)]

\* _flush_locked on the engine state e = [current, store, excluded_matches, sleep_segments]
FlushLocked(e, end_ts) ==
    IF e.current = None THEN e
    ELSE [e EXCEPT !.store = InsertSession(e.store, e.current.start_ts, end_ts,
                                           e.current.app, e.current.title,
                                           e.current.source),
                   !.current = None]

\* _record_sleep_gap_locked flushing at the gap's end
RecordSleepGapAtEnd(e, start_ts, end_ts) ==
    LET f == IF e.current = None THEN e
             ELSE [e EXCEPT !.store = InsertSession(e.store, e.current.start_ts, end_ts,
                                                    e.current.app, e.current.title,
                                                    e.current.source),
                            !.current = None]
    IN  [f EXCEPT !.store = InsertSession(f.store, start_ts, end_ts,
                                          SleepApp, <<>>, SleepSource),
                  !.sleep_segments = f.sleep_segments + 1]

\* _record_sleep_gap_locked without its last line
RecordSleepGapLockedUncounted(e, start_ts, end_ts) ==
    LET f == FlushLocked(e, start_ts)
    IN  [f EXCEPT !.store = InsertSession(f.store, start_ts, end_ts,
                                          SleepApp, <<>>, SleepSource)]

RecordSleepGapLocked(e, start_ts, end_ts) ==
    LET f == FlushLocked(e, start_ts)
    IN  [f EXCEPT !.store = InsertSession(f.store, start_ts, end_ts,
                                          SleepApp, <<>>, SleepSource),
                  !.sleep_segments = f.sleep_segments + 1]

\* _apply_idle_state comparing with > where the code has >=
ApplyIdleStateStrict(detected, idle_seconds) ==
    IF detected = None THEN None
    ELSE IF idle_seconds = Nil THEN detected
    ELSE IF idle_seconds > idle_threshold_seconds
    THEN ActiveWindow(Inactivo, <<>>, IdleSource)
    ELSE IF idle_seconds > effective_idle_seconds
    THEN ActiveWindow(detected.app, detected.title, detected.source \o IdleSuffix)
    ELSE detected

\* _apply_idle_state suffixing the source for every known reading below the threshold
ApplyIdleStateAlwaysAdjacent(detected, idle_seconds) ==
    IF detected = None THEN None
    ELSE IF idle_seconds = Nil THEN detected
    ELSE IF idle_seconds >= idle_threshold_seconds
    THEN ActiveWindow(Inactivo, <<>>, IdleSource)
    ELSE ActiveWindow(detected.app, detected.title, detected.source \o IdleSuffix)

\* _apply_idle_state leaving the source of idle-adjacent activity as it is
ApplyIdleStateKeepsSource(detected, idle_seconds) ==
    IF detected = None THEN None
    ELSE IF idle_seconds = Nil THEN detected
    ELSE IF idle_seconds >= idle_threshold_seconds
    THEN ActiveWindow(Inactivo, <<>>, IdleSource)
    ELSE detected

ApplyIdleState(detected, idle_seconds) ==
    IF detected = None THEN None
    ELSE IF idle_seconds = Nil THEN detected
    ELSE IF idle_seconds >= idle_threshold_seconds
    THEN ActiveWindow(Inactivo, <<>>, IdleSource)
    ELSE IF idle_seconds >= effective_idle_seconds
    THEN ActiveWindow(detected.app, detected.title, detected.source \o IdleSuffix)
    ELSE detected

\* _is_unidentified comparing the label without casefold()
IsUnidentifiedCaseSensitive(detected) ==
    LET app   == Strip(detected.app)
        title == Strip(detected.title)
    IN  app \in {ProcesoFolded, DesconocidoFolded} /\ title = <<>>

IsUnidentified(detected) ==
    LET app   == Casefold(Strip(detected.app))
        title == Strip(detected.title)
    IN  app \in {ProcesoFolded, DesconocidoFolded} /\ title = <<>>

ShouldExclude(compiled, detected) == IsExcluded(compiled, detected.app, detected.title)

\* _ingest_locked returning at once when nothing was detected
IngestLockedSkipsNone(e, compiled, now_ts, detected) ==
    IF detected = None THEN e
    ELSE IF ShouldExclude(compiled, detected)
    THEN FlushLocked([e EXCEPT !.excluded_matches = e.excluded_matches + 1], now_ts)
    ELSE IF IsUnidentified(detected) THEN e
    ELSE IF e.current = None
    THEN [e EXCEPT !.current = CurrentSession(detected.app, detected.title,
                                              detected.source, now_ts)]
    ELSE IF /\ e.current.app = detected.app
            /\ e.current.title = detected.title
            /\ e.current.source = detected.source
    THEN e
    ELSE [FlushLocked(e, now_ts) EXCEPT
              !.current = CurrentSession(detected.app, detected.title,
                                         detected.source, now_ts)]

\* _ingest_locked reopening with the start of the segment it closed
IngestLockedKeepsStart(e, compiled, now_ts, detected) ==
    IF detected = None THEN FlushLocked(e, now_ts)
    ELSE IF ShouldExclude(compiled, detected)
    THEN FlushLocked([e EXCEPT !.excluded_matches = e.excluded_matches + 1], now_ts)
    ELSE IF IsUnidentified(detected) THEN e
    ELSE IF e.current = None
    THEN [e EXCEPT !.current = CurrentSession(detected.app, detected.title,
                                              detected.source, now_ts)]
    ELSE IF /\ e.current.app = detected.app
            /\ e.current.title = detected.title
            /\ e.current.source = detected.source
    THEN e
    ELSE [FlushLocked(e, now_ts) EXCEPT
              !.current = CurrentSession(detected.app, detected.title,
                                         detected.source, e.current.start_ts)]

\* _ingest_locked flushing on an excluded observation without counting it
IngestLockedUncounted(e, compiled, now_ts, detected) ==
    IF detected = None THEN FlushLocked(e, now_ts)
    ELSE IF ShouldExclude(compiled, detected) THEN FlushLocked(e, now_ts)
    ELSE IF IsUnidentified(detected) THEN e
    ELSE IF e.current = None
    THEN [e EXCEPT !.current = CurrentSession(detected.app, detected.title,
                                              detected.source, now_ts)]
    ELSE IF /\ e.current.app = detected.app
            /\ e.current.title = detected.title
            /\ e.current.source = detected.source
    THEN e
    ELSE [FlushLocked(e, now_ts) EXCEPT
              !.current = CurrentSession(detected.app, detected.title,
                                         detected.source, now_ts)]

\* _ingest_locked without the test of `unchanged`
IngestLockedReopens(e, compiled, now_ts, detected) ==
    IF detected = None THEN FlushLocked(e, now_ts)
    ELSE IF ShouldExclude(compiled, detected)
    THEN FlushLocked([e EXCEPT !.excluded_matches = e.excluded_matches + 1], now_ts)
    ELSE IF IsUnidentified(detected) THEN e
    ELSE [FlushLocked(e, now_ts) EXCEPT
              !.current = CurrentSession(detected.app, detected.title,
                                         detected.source, now_ts)]

IngestLocked(e, compiled, now_ts, detected) ==
    IF detected = None THEN FlushLocked(e, now_ts)
    ELSE IF ShouldExclude(compiled, detected)
    THEN FlushLocked([e EXCEPT !.excluded_matches = e.excluded_matches + 1], now_ts)
    ELSE IF IsUnidentified(detected) THEN e
    ELSE IF e.current = None
    THEN [e EXCEPT !.current = CurrentSession(detected.app, detected.title,
                                              detected.source, now_ts)]
    ELSE IF /\ e.current.app = detected.app
            /\ e.current.title = detected.title
            /\ e.current.source = detected.source
    THEN e
    ELSE [FlushLocked(e, now_ts) EXCEPT
              !.current = CurrentSession(detected.app, detected.title,
                                         detected.source, now_ts)]

\* the critical section of _run recording the sleep gap before it tests the
\* pause flag
TickLockedGapFirst(e, compiled, is_paused, now_wall, now_mono, last_wall, last_mono, detected, idle_seconds) ==
    LET gap == ComputeSleepGap(now_wall, now_mono, last_wall, last_mono)
        g == IF gap[1] # Nil /\ gap[2] # Nil
             THEN RecordSleepGapLocked(e, gap[1], gap[2])
             ELSE e
    IN  IF is_paused THEN FlushLocked(g, now_wall)
        ELSE IngestLocked(g, compiled, now_wall, ApplyIdleState(detected, idle_seconds))

\* the critical section of one iteration of _run
TickLocked(e, compiled, is_paused, now_wall, now_mono, last_wall, last_mono, detected, idle_seconds) ==
    LET gap == ComputeSleepGap(now_wall, now_mono, last_wall, last_mono)
    IN  IF is_paused THEN FlushLocked(e, now_wall)
        ELSE LET g == IF gap[1] # Nil /\ gap[2] # Nil
                      THEN RecordSleepGapLocked(e, gap[1], gap[2])
                      ELSE e
             IN  IngestLocked(g, compiled, now_wall, ApplyIdleState(detected, idle_seconds))

(* ------------------------------ inputs --------------------------------- *)

X11 == <<"x","1","1">>

WEditor == ActiveWindow(<<"E","d","i","t","o","r">>, <<"d","o","c",".","t","x","t">>, X11)

WDeezer == ActiveWindow(<<"D","e","e","z","e","r">>, <<"M","i","x">>, X11)

WProceso == ActiveWindow(Proceso, <<>>, X11)

\* what detect() can return
Detections == {None, WEditor, WProceso}

\* what detect() can return when a single application is in use
OneApp == {None, WEditor}

\* what detect() can return when a second application is in use
TwoApps == {WEditor, WDeezer}

\* what _detect_idle() returns with idle detection disabled
IdleDisabled == {Nil}

\* what get_idle_seconds() can return
IdleReadings == {Nil, 0, effective_idle_seconds, idle_threshold_seconds}

\* the seconds of wall-clock time one suspend of the machine lasts
SuspendSeconds == {sleep_gap_seconds}

\* bodies of POST /api/privacy/rules
RulePayloads ==
    {[scope |-> ScopeApp, match_mode |-> ModeExact,
      pattern |-> <<"D","e","e","z","e","r">>, enabled |-> TRUE]}

Handlers == {1}

\* the requests that may be in progress at the same time
Requests == {1, 2}

(* ------------------------------- state --------------------------------- *)

VARIABLES
    wall,               \* time.time(), whole seconds
    mono,               \* time.monotonic(), whole seconds
    sessions,           \* table sessions, in rowid order
    privacy_rules,      \* table privacy_rules
    next_rule_id,       \* its AUTOINCREMENT counter
    compiled_rules,     \* PrivacyFilter._compiled_rules
    thread,             \* ActivityTracker._thread: "none", "alive" or "dead"
    stop_event,         \* ActivityTracker._stop_event
    current,            \* ActivityTracker._current
    paused,             \* ActivityTracker._paused
    last_idle_seconds,  \* ActivityTracker._last_idle_seconds
    excluded_matches,   \* ActivityTracker._excluded_matches
    sleep_segments,     \* ActivityTracker._sleep_segments
    last_wall_ts,       \* ActivityTracker._last_wall_ts
    last_mono_ts,       \* ActivityTracker._last_mono_ts
    w_pc,               \* where the worker is in _run: "top", "detect" or "lock"
    w_now_wall,         \* _run's now_wall (and now_ts)
    w_now_mono,         \* _run's now_mono
    w_detected,         \* _run's detected
    w_idle,             \* _run's idle_seconds
    stop_pc,            \* where the caller of stop() is: "idle", "join" or "flush"
    h_pc,               \* where each rule-management request is
    h_rows,             \* refresh_privacy_rules' rows of each request
    lock,               \* holder of ActivityTracker._lock: "free" or "worker"
    status_snapshot,    \* what the last status() call returned
    w_open,             \* the segment _ingest_locked is about to assign to _current
    h_i,                \* update_rules' position in its loop, per request
    h_compiled,         \* update_rules' local list `compiled`, per request
    h_was_paused,       \* restore_backup's was_paused, per request
    db_result,          \* what the last call of the store or of an endpoint returned
    app_categories,     \* table app_categories
    live_workers        \* number of threads that are executing _run

clock_vars == <<wall, mono>>

db_vars == <<sessions, privacy_rules, next_rule_id>>

engine_vars == <<current, paused, last_idle_seconds, excluded_matches, sleep_segments>>

worker_vars == <<thread, stop_event, last_wall_ts, last_mono_ts, w_pc, w_now_wall,
                 w_now_mono, w_detected, w_idle>>

handler_vars == <<compiled_rules, h_pc, h_rows>>

request_vars == <<lock, status_snapshot, w_open, h_i, h_compiled, h_was_paused, db_result>>

vars == <<wall, mono, sessions, privacy_rules, next_rule_id, compiled_rules, thread,
          stop_event, current, paused, last_idle_seconds, excluded_matches,
          sleep_segments, last_wall_ts, last_mono_ts, w_pc, w_now_wall, w_now_mono,
          w_detected, w_idle, stop_pc, h_pc, h_rows, lock, status_snapshot, w_open,
          h_i, h_compiled, h_was_paused, db_result, app_categories,
          live_workers>>

\* the engine state the locked helpers work on
Engine ==
    [current |-> current, store |-> sessions,
     excluded_matches |-> excluded_matches, sleep_segments |-> sleep_segments]

SetEngine(e) ==
    /\ Len(e.store) <= MaxSessions
    /\ current' = e.current
    /\ sessions' = e.store
    /\ excluded_matches' = e.excluded_matches
    /\ sleep_segments' = e.sleep_segments

Init ==
    /\ wall = 0
    /\ mono = 0
    /\ sessions = <<>>
    /\ privacy_rules = {}
    /\ next_rule_id = 1
    /\ compiled_rules = <<>>
    /\ thread = "none"
    /\ stop_event = FALSE
    /\ current = None
    /\ paused = FALSE
    /\ last_idle_seconds = Nil
    /\ excluded_matches = 0
    /\ sleep_segments = 0
    /\ last_wall_ts = Nil
    /\ last_mono_ts = Nil
    /\ w_pc = "top"
    /\ w_now_wall = 0
    /\ w_now_mono = 0
    /\ w_detected = None
    /\ w_idle = Nil
    /\ stop_pc = "idle"
    /\ h_pc = [h \in Requests |-> "idle"]
    /\ h_rows = [h \in Requests |-> <<>>]
    /\ lock = "free"
    /\ status_snapshot = None
    /\ w_open = None
    /\ h_i = [h \in Requests |-> 1]
    /\ h_compiled = [h \in Requests |-> <<>>]
    /\ h_was_paused = [h \in Requests |-> FALSE]
    /\ db_result = None
    /\ app_categories = {}
    /\ live_workers = 0

(* ------------------------------ the clocks ----------------------------- *)

\* one second passes while the machine is awake
ClockTick ==
    /\ mono < MaxMono
    /\ wall' = wall + 1
    /\ mono' = mono + 1
    /\ UNCHANGED <<db_vars, engine_vars, worker_vars, handler_vars, stop_pc>>
    /\ UNCHANGED request_vars
    /\ UNCHANGED <<app_categories, live_workers>>

\* the machine is suspended: only the wall clock moves
ClockSuspend ==
    /\ \E d \in SuspendSeconds :
          /\ (wall - mono) + d <= MaxSuspends * sleep_gap_seconds
          /\ wall' = wall + d
    /\ UNCHANGED <<mono, db_vars, engine_vars, worker_vars, handler_vars, stop_pc>>
    /\ UNCHANGED request_vars
    /\ UNCHANGED <<app_categories, live_workers>>

(* ------------------------------ the tracker ---------------------------- *)

\* start() without the test of is_alive()
StartThreadUnguarded ==
    /\ stop_event' = FALSE
    /\ last_wall_ts' = wall
    /\ last_mono_ts' = mono
    /\ thread' = "alive"
    /\ w_pc' = "top"
    /\ live_workers' = live_workers + 1

\* start(): nothing happens while self._thread is alive; otherwise the event
\* is cleared, the clocks are read and a new thread is created and started
StartThread ==
    IF thread = "alive"
    THEN UNCHANGED <<thread, stop_event, last_wall_ts, last_mono_ts, w_pc, live_workers>>
    ELSE /\ stop_event' = FALSE
         /\ last_wall_ts' = wall
         /\ last_mono_ts' = mono
         /\ thread' = "alive"
         /\ w_pc' = "top"
         /\ live_workers' = live_workers + 1

Start ==
    /\ StartThread
    /\ UNCHANGED <<clock_vars, db_vars, engine_vars, handler_vars, stop_pc,
                   w_now_wall, w_now_mono, w_detected, w_idle>>
    /\ UNCHANGED request_vars
    /\ UNCHANGED app_categories

\* stop(): set the event
StopSet ==
    /\ stop_pc = "idle"
    /\ stop_event' = TRUE
    /\ stop_pc' = "join"
    /\ UNCHANGED <<clock_vars, db_vars, engine_vars, handler_vars, thread,
                   last_wall_ts, last_mono_ts, w_pc, w_now_wall, w_now_mono,
                   w_detected, w_idle>>
    /\ UNCHANGED request_vars
    /\ UNCHANGED <<app_categories, live_workers>>

\* stop(): join(timeout=3) returns, because the worker has exited or because
\* it stayed blocked in the detector or on the store for the whole timeout
StopJoin ==
    /\ stop_pc = "join"
    /\ thread # "alive" \/ w_pc \in {"detect", "lock"}
    /\ stop_pc' = "flush"
    /\ UNCHANGED <<clock_vars, db_vars, engine_vars, handler_vars, worker_vars>>
    /\ UNCHANGED request_vars
    /\ UNCHANGED <<app_categories, live_workers>>

\* stop(): the final flush under the lock
StopFlush ==
    /\ lock = "free"
    /\ stop_pc = "flush"
    /\ SetEngine(FlushLocked(Engine, wall))
    /\ stop_pc' = "idle"
    /\ UNCHANGED <<clock_vars, privacy_rules, next_rule_id, paused, last_idle_seconds,
                   handler_vars, worker_vars>>
    /\ UNCHANGED request_vars
    /\ UNCHANGED <<app_categories, live_workers>>

\* set_paused that only sets the flag
SetPausedNoFlush(p) ==
    /\ lock = "free"
    /\ paused' = p
    /\ UNCHANGED <<current, sessions, excluded_matches, sleep_segments>>
    /\ UNCHANGED <<clock_vars, privacy_rules, next_rule_id, last_idle_seconds,
                   handler_vars, worker_vars, stop_pc>>
    /\ UNCHANGED request_vars
    /\ UNCHANGED <<app_categories, live_workers>>

SetPaused(p) ==
    /\ lock = "free"
    /\ paused' = p
    /\ IF p THEN SetEngine(FlushLocked(Engine, wall))
            ELSE UNCHANGED <<current, sessions, excluded_matches, sleep_segments>>
    /\ UNCHANGED <<clock_vars, privacy_rules, next_rule_id, last_idle_seconds,
                   handler_vars, worker_vars, stop_pc>>
    /\ UNCHANGED request_vars
    /\ UNCHANGED <<app_categories, live_workers>>

\* _run entering `with self._lock` at the top of the iteration, before
\* detect() and _detect_idle()
WorkerTopHoldsLock ==
    /\ thread = "alive"
    /\ w_pc = "top"
    /\ lock = "free"
    /\ IF stop_event
       THEN /\ thread' = "dead"
            /\ live_workers' = live_workers - 1
            /\ UNCHANGED <<w_pc, w_now_wall, w_now_mono, lock>>
       ELSE /\ w_now_wall' = wall
            /\ w_now_mono' = mono
            /\ w_pc' = "detect"
            /\ lock' = "worker"
            /\ UNCHANGED <<thread, live_workers>>
    /\ UNCHANGED <<clock_vars, db_vars, engine_vars, handler_vars, stop_pc, stop_event,
                   last_wall_ts, last_mono_ts, w_detected, w_idle>>
    /\ UNCHANGED <<status_snapshot, w_open, h_i, h_compiled, h_was_paused, db_result>>
    /\ UNCHANGED app_categories

\* _run: the loop test, then the clock readings of the iteration
WorkerTop ==
    /\ thread = "alive"
    /\ w_pc = "top"
    /\ IF stop_event
       THEN /\ thread' = "dead"
            /\ live_workers' = live_workers - 1
            /\ UNCHANGED <<w_pc, w_now_wall, w_now_mono>>
       ELSE /\ w_now_wall' = wall
            /\ w_now_mono' = mono
            /\ w_pc' = "detect"
            /\ UNCHANGED <<thread, live_workers>>
    /\ UNCHANGED <<clock_vars, db_vars, engine_vars, handler_vars, stop_pc, stop_event,
                   last_wall_ts, last_mono_ts, w_detected, w_idle>>
    /\ UNCHANGED request_vars
    /\ UNCHANGED app_categories

\* _run: detect() and _detect_idle(), outside the lock; the detector returns
\* one of D and the idle backend one of I
WorkerDetect(D, I) ==
    /\ thread = "alive"
    /\ w_pc = "detect"
    /\ \E d \in D, i \in I :
          /\ w_detected' = d
          /\ w_idle' = i
    /\ w_pc' = "lock"
    /\ UNCHANGED <<clock_vars, db_vars, engine_vars, handler_vars, stop_pc, stop_event,
                   thread, last_wall_ts, last_mono_ts, w_now_wall, w_now_mono>>
    /\ UNCHANGED request_vars
    /\ UNCHANGED <<app_categories, live_workers>>

\* _run: the sleep-gap computation, the critical section, the bookkeeping after it
WorkerLocked ==
    /\ lock = "free"
    /\ thread = "alive"
    /\ w_pc = "lock"
    /\ LET e == TickLocked(Engine, compiled_rules, paused, w_now_wall, w_now_mono,
                           last_wall_ts, last_mono_ts, w_detected, w_idle)
       IN  /\ e.excluded_matches <= MaxExcluded
           /\ SetEngine(e)
    /\ last_idle_seconds' = w_idle
    /\ last_wall_ts' = w_now_wall
    /\ last_mono_ts' = w_now_mono
    /\ w_pc' = "top"
    /\ w_detected' = None
    /\ w_idle' = Nil
    /\ UNCHANGED <<clock_vars, privacy_rules, next_rule_id, paused, handler_vars,
                   stop_pc, stop_event, thread, w_now_wall, w_now_mono>>
    /\ UNCHANGED request_vars
    /\ UNCHANGED <<app_categories, live_workers>>

(* ------------------------- rule-management requests -------------------- *)

\* POST /api/privacy/rules up to the refresh
CreatePrivacyRule(h, payload) ==
    /\ h_pc[h] = "idle"
    /\ LET r == UpsertPrivacyRule(privacy_rules, next_rule_id, payload.scope,
                                  payload.pattern, payload.match_mode,
                                  payload.enabled, wall)
       IN  IF r = ValueError
           THEN UNCHANGED <<privacy_rules, next_rule_id, h_pc>>
           ELSE /\ r.next_id <= MaxRuleId + 1
                /\ privacy_rules' = r.rules
                /\ next_rule_id' = r.next_id
                /\ h_pc' = [h_pc EXCEPT ![h] = "list"]
    /\ UNCHANGED <<clock_vars, sessions, engine_vars, worker_vars, stop_pc,
                   compiled_rules, h_rows>>
    /\ UNCHANGED request_vars
    /\ UNCHANGED <<app_categories, live_workers>>

\* PATCH /api/privacy/rules/{rule_id} up to the refresh
PatchPrivacyRule(h, rule_id, enabled) ==
    /\ h_pc[h] = "idle"
    /\ IF \E r \in privacy_rules : r.id = rule_id
       THEN /\ privacy_rules' = SetPrivacyRuleEnabled(privacy_rules, rule_id, enabled, wall)
            /\ h_pc' = [h_pc EXCEPT ![h] = "list"]
       ELSE UNCHANGED <<privacy_rules, h_pc>>
    /\ UNCHANGED <<clock_vars, sessions, next_rule_id, engine_vars, worker_vars, stop_pc,
                   compiled_rules, h_rows>>
    /\ UNCHANGED request_vars
    /\ UNCHANGED <<app_categories, live_workers>>

\* refresh_privacy_rules: db.list_privacy_rules()
RefreshList(h) ==
    /\ h_pc[h] = "list"
    /\ h_rows' = [h_rows EXCEPT ![h] = ListPrivacyRules(privacy_rules)]
    /\ h_pc' = [h_pc EXCEPT ![h] = "update"]
    /\ UNCHANGED <<clock_vars, db_vars, engine_vars, worker_vars, stop_pc, compiled_rules>>
    /\ UNCHANGED request_vars
    /\ UNCHANGED <<app_categories, live_workers>>

\* refresh_privacy_rules: privacy_filter.update_rules(...)
RefreshUpdate(h) ==
    /\ h_pc[h] = "update"
    /\ compiled_rules' = UpdateRules(h_rows[h])
    /\ h_rows' = [h_rows EXCEPT ![h] = <<>>]
    /\ h_pc' = [h_pc EXCEPT ![h] = "idle"]
    /\ UNCHANGED <<clock_vars, db_vars, engine_vars, worker_vars, stop_pc>>
    /\ UNCHANGED request_vars
    /\ UNCHANGED <<app_categories, live_workers>>

(* ------------------------ direct calls of the store -------------------- *)

Restore == <<"r","e","s","t","o","r","e">>

Desconocido == <<"D","e","s","c","o","n","o","c","i","d","o">>

\* rows handed to insert_session and bulk_insert_sessions
DirectRows ==
    {SessionRow(0, 1, Desconocido, <<>>, Restore),
     SessionRow(1, 0, WEditor.app, WEditor.title, Restore)}

DirectBatches ==
    {<<>>,
     <<SessionRow(1, 1, WEditor.app, WEditor.title, Restore),
       SessionRow(0, 1, Desconocido, <<>>, Restore)>>}

DbInsertSession(r) ==
    /\ sessions' = InsertSession(sessions, r.start_ts, r.end_ts, r.app, r.title, r.source)
    /\ Len(sessions') <= MaxSessions
    /\ UNCHANGED <<clock_vars, privacy_rules, next_rule_id, engine_vars, worker_vars,
                   handler_vars, stop_pc>>
    /\ UNCHANGED request_vars
    /\ UNCHANGED <<app_categories, live_workers>>

DbBulkInsertSessions(rows) ==
    /\ sessions' = BulkInsertSessions(sessions, rows).sessions
    /\ Len(sessions') <= MaxSessions
    /\ UNCHANGED <<clock_vars, privacy_rules, next_rule_id, engine_vars, worker_vars,
                   handler_vars, stop_pc>>
    /\ UNCHANGED request_vars
    /\ UNCHANGED <<app_categories, live_workers>>

(* --------------------------- the specifications ------------------------ *)

Lifecycle ==
    \/ Start
    \/ StopSet
    \/ StopJoin
    \/ StopFlush

Pause == \E p \in BOOLEAN : SetPaused(p)

\* the engine with idle detection disabled, on a machine that may suspend
Next ==
    \/ ClockTick
    \/ ClockSuspend
    \/ Lifecycle
    \/ Pause
    \/ WorkerTop
    \/ WorkerDetect(Detections, IdleDisabled)
    \/ WorkerLocked

Spec == Init /\ [][Next]_vars

\* the engine with idle detection enabled
NextIdle ==
    \/ ClockTick
    \/ Lifecycle
    \/ Pause
    \/ WorkerTop
    \/ WorkerDetect(Detections, IdleReadings)
    \/ WorkerLocked

SpecIdle == Init /\ [][NextIdle]_vars

\* the engine and the rule-management requests
NextPrivacy ==
    \/ ClockTick
    \/ Start
    \/ Pause
    \/ WorkerTop
    \/ WorkerDetect(TwoApps, IdleDisabled)
    \/ WorkerLocked
    \/ \E h \in Handlers, payload \in RulePayloads : CreatePrivacyRule(h, payload)
    \/ \E h \in Handlers, rule_id \in 1..next_rule_id, enabled \in BOOLEAN :
          PatchPrivacyRule(h, rule_id, enabled)
    \/ \E h \in Handlers : RefreshList(h)
    \/ \E h \in Handlers : RefreshUpdate(h)

SpecPrivacy == Init /\ [][NextPrivacy]_vars

\* the engine while the user switches between two applications, on a
\* machine that may suspend
NextSwitch ==
    \/ ClockTick
    \/ ClockSuspend
    \/ Start
    \/ Pause
    \/ WorkerTop
    \/ WorkerDetect(TwoApps, IdleDisabled)
    \/ WorkerLocked

SpecSwitch == Init /\ [][NextSwitch]_vars

\* the engine and direct writers of the sessions table; the direct writers
\* call the store while no worker thread runs (before start, after stop)
NextStore ==
    \/ ClockTick
    \/ ClockSuspend
    \/ Lifecycle
    \/ Pause
    \/ WorkerTop
    \/ WorkerDetect(OneApp, IdleDisabled)
    \/ WorkerLocked
    \/ thread # "alive" /\ \E r \in DirectRows : DbInsertSession(r)
    \/ thread # "alive" /\ \E rows \in DirectBatches : DbBulkInsertSessions(rows)

SpecStore == Init /\ [][NextStore]_vars

(* ------------------- the critical section, step by step ---------------- *)

\* _ingest_locked reaches one of its two assignments of _current
IngestOpens(e, compiled, detected) ==
    /\ detected # None
    /\ ~ShouldExclude(compiled, detected)
    /\ ~IsUnidentified(detected)
    /\ \/ e.current = None
       \/ ~(/\ e.current.app = detected.app
            /\ e.current.title = detected.title
            /\ e.current.source = detected.source)

\* _ingest_locked up to its assignment of _current
IngestFlushed(e, compiled, now_ts, detected) ==
    IF IngestOpens(e, compiled, detected)
    THEN FlushLocked(e, now_ts)
    ELSE IngestLocked(e, compiled, now_ts, detected)

\* the critical section of _run in two parts: the engine once every flush
\* and insert is done, and the segment then assigned to _current (or None)
TickSteps(e, compiled, is_paused, now_wall, now_mono, last_wall, last_mono, detected, idle_seconds) ==
    LET gap == ComputeSleepGap(now_wall, now_mono, last_wall, last_mono)
        g == IF gap[1] # Nil /\ gap[2] # Nil
             THEN RecordSleepGapLocked(e, gap[1], gap[2])
             ELSE e
        normalized == ApplyIdleState(detected, idle_seconds)
    IN  IF is_paused
        THEN [flushed |-> FlushLocked(e, now_wall), open |-> None]
        ELSE [flushed |-> IngestFlushed(g, compiled, now_wall, normalized),
              open |-> IF IngestOpens(g, compiled, normalized)
                       THEN CurrentSession(normalized.app, normalized.title,
                                           normalized.source, now_wall)
                       ELSE None]

\* _run: `with self._lock`
WorkerAcquire ==
    /\ thread = "alive"
    /\ w_pc = "lock"
    /\ lock = "free"
    /\ lock' = "worker"
    /\ w_pc' = "flush"
    /\ UNCHANGED <<clock_vars, db_vars, engine_vars, handler_vars, stop_pc, stop_event,
                   thread, last_wall_ts, last_mono_ts, w_now_wall, w_now_mono,
                   w_detected, w_idle>>
    /\ UNCHANGED <<status_snapshot, w_open, h_i, h_compiled, h_was_paused, db_result>>
    /\ UNCHANGED <<app_categories, live_workers>>

\* _run: the critical section up to the assignment of _current
WorkerFlush ==
    /\ thread = "alive"
    /\ w_pc = "flush"
    /\ lock = "worker"
    /\ LET t == TickSteps(Engine, compiled_rules, paused, w_now_wall, w_now_mono,
                          last_wall_ts, last_mono_ts, w_detected, w_idle)
       IN  /\ t.flushed.excluded_matches <= MaxExcluded
           /\ SetEngine(t.flushed)
           /\ w_open' = t.open
    /\ last_idle_seconds' = w_idle
    /\ w_pc' = "open"
    /\ UNCHANGED <<clock_vars, privacy_rules, next_rule_id, paused, handler_vars,
                   stop_pc, stop_event, thread, last_wall_ts, last_mono_ts,
                   w_now_wall, w_now_mono, w_detected, w_idle>>
    /\ UNCHANGED <<lock, status_snapshot, h_i, h_compiled, h_was_paused, db_result>>
    /\ UNCHANGED <<app_categories, live_workers>>

\* _run: the assignment of _current, the release of the lock, the bookkeeping
WorkerOpen ==
    /\ thread = "alive"
    /\ w_pc = "open"
    /\ lock = "worker"
    /\ current' = IF w_open # None THEN w_open ELSE current
    /\ w_open' = None
    /\ lock' = "free"
    /\ last_wall_ts' = w_now_wall
    /\ last_mono_ts' = w_now_mono
    /\ w_pc' = "top"
    /\ w_detected' = None
    /\ w_idle' = Nil
    /\ UNCHANGED <<clock_vars, db_vars, paused, last_idle_seconds, excluded_matches,
                   sleep_segments, handler_vars, stop_pc, stop_event, thread,
                   w_now_wall, w_now_mono>>
    /\ UNCHANGED <<status_snapshot, h_i, h_compiled, h_was_paused, db_result>>
    /\ UNCHANGED <<app_categories, live_workers>>

\* the dictionary status() returns
StatusOf(is_running, is_paused, cur, idle, sleeps, excluded) ==
    [running |-> is_running, paused |-> is_paused, current |-> cur,
     last_idle_seconds |-> idle, sleep_segments |-> sleeps,
     excluded_matches |-> excluded]

\* status() reading the fields without taking the lock
StatusUnlocked ==
    /\ status_snapshot' = StatusOf(thread = "alive", paused, current, last_idle_seconds,
                                   sleep_segments, excluded_matches)
    /\ UNCHANGED <<clock_vars, db_vars, engine_vars, worker_vars, handler_vars, stop_pc>>
    /\ UNCHANGED <<lock, w_open, h_i, h_compiled, h_was_paused, db_result>>
    /\ UNCHANGED <<app_categories, live_workers>>

Status ==
    /\ lock = "free"
    /\ status_snapshot' = StatusOf(thread = "alive", paused, current, last_idle_seconds,
                                   sleep_segments, excluded_matches)
    /\ UNCHANGED <<clock_vars, db_vars, engine_vars, worker_vars, handler_vars, stop_pc>>
    /\ UNCHANGED <<lock, w_open, h_i, h_compiled, h_was_paused, db_result>>
    /\ UNCHANGED <<app_categories, live_workers>>

\* the state after the application started on a store that holds an
\* enabled rule: the startup refresh has compiled it
StoredRules == UpsertPrivacyRule({}, 1, ScopeApp, <<"D","e","e","z","e","r">>, ModeExact, TRUE, 0)

InitExclusion ==
    /\ wall = 0
    /\ mono = 0
    /\ sessions = <<>>
    /\ privacy_rules = StoredRules.rules
    /\ next_rule_id = StoredRules.next_id
    /\ compiled_rules = UpdateRules(ListPrivacyRules(StoredRules.rules))
    /\ thread = "none"
    /\ stop_event = FALSE
    /\ current = None
    /\ paused = FALSE
    /\ last_idle_seconds = Nil
    /\ excluded_matches = 0
    /\ sleep_segments = 0
    /\ last_wall_ts = Nil
    /\ last_mono_ts = Nil
    /\ w_pc = "top"
    /\ w_now_wall = 0
    /\ w_now_mono = 0
    /\ w_detected = None
    /\ w_idle = Nil
    /\ stop_pc = "idle"
    /\ h_pc = [h \in Requests |-> "idle"]
    /\ h_rows = [h \in Requests |-> <<>>]
    /\ lock = "free"
    /\ status_snapshot = None
    /\ w_open = None
    /\ h_i = [h \in Requests |-> 1]
    /\ h_compiled = [h \in Requests |-> <<>>]
    /\ h_was_paused = [h \in Requests |-> FALSE]
    /\ db_result = None
    /\ app_categories = {}
    /\ live_workers = 0

\* one run of the engine, from start() to stop(), on a machine that may
\* suspend; status() is read once the worker has exited
NextExclusion ==
    \/ ClockTick
    \/ ClockSuspend
    \/ thread = "none" /\ Start
    \/ StopSet
    \/ StopJoin
    \/ StopFlush
    \/ Pause
    \/ WorkerTop
    \/ WorkerDetect(TwoApps, IdleDisabled)
    \/ WorkerLocked
    \/ thread = "dead" /\ Status

SpecExclusion == InitExclusion /\ [][NextExclusion]_vars

\* the engine with its critical section in steps, and a reader of status()
NextStatus ==
    \/ ClockTick
    \/ Start
    \/ Pause
    \/ WorkerTop
    \/ WorkerDetect(TwoApps, IdleDisabled)
    \/ WorkerAcquire
    \/ WorkerFlush
    \/ WorkerOpen
    \/ Status

SpecStatus == Init /\ [][NextStatus]_vars

(* ------------------------ update_rules, step by step ------------------- *)

\* bodies of POST /api/privacy/rules for two different rules
TwoRulePayloads ==
    RulePayloads \cup
    {[scope |-> ScopeTitle, match_mode |-> ModeContains,
      pattern |-> <<"d","o","c">>, enabled |-> TRUE]}

\* update_rules appending to self._compiled_rules itself, emptied at the first rule
UpdateRulesStepInPlace(h) ==
    /\ h_pc[h] = "update"
    /\ h_i[h] <= Len(h_rows[h])
    /\ LET rule == h_rows[h][h_i[h]]
           base == IF h_i[h] = 1 THEN <<>> ELSE compiled_rules
       IN  compiled_rules' = IF Compilable(rule)
                             THEN Append(base, CompiledRule(rule))
                             ELSE base
    /\ h_compiled' = [h_compiled EXCEPT ![h] = compiled_rules']
    /\ h_i' = [h_i EXCEPT ![h] = h_i[h] + 1]
    /\ UNCHANGED <<clock_vars, db_vars, engine_vars, worker_vars, stop_pc,
                   h_pc, h_rows>>
    /\ UNCHANGED <<lock, status_snapshot, w_open, h_was_paused, db_result>>
    /\ UNCHANGED <<app_categories, live_workers>>

\* update_rules: one iteration of the loop over the rules
UpdateRulesStep(h) ==
    /\ h_pc[h] = "update"
    /\ h_i[h] <= Len(h_rows[h])
    /\ LET rule == h_rows[h][h_i[h]]
       IN  h_compiled' = [h_compiled EXCEPT ![h] =
                             IF Compilable(rule)
                             THEN Append(h_compiled[h], CompiledRule(rule))
                             ELSE h_compiled[h]]
    /\ h_i' = [h_i EXCEPT ![h] = h_i[h] + 1]
    /\ UNCHANGED <<clock_vars, db_vars, engine_vars, worker_vars, stop_pc,
                   compiled_rules, h_pc, h_rows>>
    /\ UNCHANGED <<lock, status_snapshot, w_open, h_was_paused, db_result>>
    /\ UNCHANGED <<app_categories, live_workers>>

\* update_rules: `self._compiled_rules = compiled` under the filter's lock,
\* and the return of refresh_privacy_rules
UpdateRulesInstall(h) ==
    /\ h_pc[h] = "update"
    /\ h_i[h] > Len(h_rows[h])
    /\ compiled_rules' = h_compiled[h]
    /\ h_compiled' = [h_compiled EXCEPT ![h] = <<>>]
    /\ h_i' = [h_i EXCEPT ![h] = 1]
    /\ h_rows' = [h_rows EXCEPT ![h] = <<>>]
    /\ h_pc' = [h_pc EXCEPT ![h] = "idle"]
    /\ UNCHANGED <<clock_vars, db_vars, engine_vars, worker_vars, stop_pc>>
    /\ UNCHANGED <<lock, status_snapshot, w_open, h_was_paused, db_result>>
    /\ UNCHANGED <<app_categories, live_workers>>

\* the engine matching while a request replaces the rule set
NextFilter ==
    \/ ClockTick
    \/ Start
    \/ WorkerTop
    \/ WorkerDetect(TwoApps, IdleDisabled)
    \/ WorkerLocked
    \/ \E h \in Handlers, payload \in TwoRulePayloads : CreatePrivacyRule(h, payload)
    \/ \E h \in Handlers, rule_id \in 1..next_rule_id, enabled \in BOOLEAN :
          PatchPrivacyRule(h, rule_id, enabled)
    \/ \E h \in Handlers : RefreshList(h)
    \/ \E h \in Handlers : UpdateRulesStep(h)
    \/ \E h \in Handlers : UpdateRulesInstall(h)

SpecFilter == Init /\ [][NextFilter]_vars

(* ----------------------------- restore_backup -------------------------- *)

\* payload.sessions of POST /api/backup/restore
RestoreSessions ==
    <<SessionRow(1, 1, WEditor.app, WEditor.title, Restore),
      SessionRow(0, 1, Desconocido, <<>>, Restore)>>

\* payload.privacy_rules of POST /api/backup/restore
RestorePrivacyRules ==
    <<[scope |-> ScopeApp, match_mode |-> ModeExact,
       pattern |-> <<"D","e","e","z","e","r">>, enabled |-> TRUE]>>

\* payload.categories of POST /api/backup/restore
RestoreCategories == <<CategoryRow(WEditor.app, <<"W","o","r","k">>)>>

\* the loop of restore_backup that builds session_rows with every source
\* replaced by "restore"
RECURSIVE RestoreSessionRowsRetagged(_)
RestoreSessionRowsRetagged(items) ==
    IF items = <<>> THEN <<>>
    ELSE IF Head(items).end_ts <= Head(items).start_ts
    THEN RestoreSessionRowsRetagged(Tail(items))
    ELSE <<[Head(items) EXCEPT !.source = Restore]>>
         \o RestoreSessionRowsRetagged(Tail(items))

\* the loop of restore_backup that builds session_rows
RECURSIVE RestoreSessionRows(_)
RestoreSessionRows(items) ==
    IF items = <<>> THEN <<>>
    ELSE IF Head(items).end_ts <= Head(items).start_ts
    THEN RestoreSessionRows(Tail(items))
    ELSE <<[Head(items) EXCEPT !.source = IF @ = <<>> THEN Restore ELSE @]>>
         \o RestoreSessionRows(Tail(items))

\* category_rows of restore_backup
RestoreCategoryRows(items) == SelectSeq(items, LAMBDA item : Strip(item.app) # <<>>)

\* the loop of restore_backup over payload.privacy_rules: the rules table
\* and the id counter afterwards
RECURSIVE RestoreUpsertRules(_, _, _, _)
RestoreUpsertRules(table, next_id, rules, now_ts) ==
    IF rules = <<>> THEN [rules |-> table, next_id |-> next_id]
    ELSE LET r == UpsertPrivacyRule(table, next_id, Head(rules).scope,
                                    Head(rules).pattern, Head(rules).match_mode,
                                    Head(rules).enabled, now_ts)
         IN  IF r = ValueError
             THEN RestoreUpsertRules(table, next_id, Tail(rules), now_ts)
             ELSE RestoreUpsertRules(r.rules, r.next_id, Tail(rules), now_ts)

\* restore_backup: was_paused = bool(tracker.status().get("paused"))
RestoreBegin(h) ==
    /\ h_pc[h] = "idle"
    /\ lock = "free"
    /\ h_was_paused' = [h_was_paused EXCEPT ![h] = paused]
    /\ h_pc' = [h_pc EXCEPT ![h] = "r_pause"]
    /\ UNCHANGED <<clock_vars, db_vars, engine_vars, worker_vars, stop_pc,
                   compiled_rules, h_rows>>
    /\ UNCHANGED <<lock, status_snapshot, w_open, h_i, h_compiled, db_result>>
    /\ UNCHANGED <<app_categories, live_workers>>

\* restore_backup: tracker.set_paused(True)
RestorePause(h) ==
    /\ h_pc[h] = "r_pause"
    /\ lock = "free"
    /\ paused' = TRUE
    /\ SetEngine(FlushLocked(Engine, wall))
    /\ h_pc' = [h_pc EXCEPT ![h] = "r_clear"]
    /\ UNCHANGED <<clock_vars, privacy_rules, next_rule_id, last_idle_seconds,
                   worker_vars, stop_pc, compiled_rules, h_rows>>
    /\ UNCHANGED request_vars
    /\ UNCHANGED <<app_categories, live_workers>>

\* restore_backup: the clear_* calls when replace is set
RestoreClear(h, replace) ==
    /\ h_pc[h] = "r_clear"
    /\ sessions' = IF replace THEN <<>> ELSE sessions
    /\ privacy_rules' = IF replace THEN {} ELSE privacy_rules
    /\ h_pc' = [h_pc EXCEPT ![h] = "r_bulk"]
    /\ UNCHANGED <<clock_vars, next_rule_id, engine_vars, worker_vars, stop_pc,
                   compiled_rules, h_rows>>
    /\ UNCHANGED request_vars
    /\ app_categories' = IF replace THEN {} ELSE app_categories
    /\ UNCHANGED live_workers

\* restore_backup: session_rows and db.bulk_insert_sessions(session_rows),
\* category_rows and db.bulk_set_app_categories(category_rows)
RestoreBulk(h, items) ==
    /\ h_pc[h] = "r_bulk"
    /\ sessions' = BulkInsertSessions(sessions, RestoreSessionRows(items)).sessions
    /\ Len(sessions') <= MaxSessions
    /\ h_pc' = [h_pc EXCEPT ![h] = "r_rules"]
    /\ UNCHANGED <<clock_vars, privacy_rules, next_rule_id, engine_vars, worker_vars,
                   stop_pc, compiled_rules, h_rows>>
    /\ UNCHANGED request_vars
    /\ app_categories' = BulkSetAppCategories(app_categories,
                                           RestoreCategoryRows(RestoreCategories)).categories
    /\ UNCHANGED live_workers

\* restore_backup: the upserts of payload.privacy_rules
RestoreRules(h, rules) ==
    /\ h_pc[h] = "r_rules"
    /\ LET r == RestoreUpsertRules(privacy_rules, next_rule_id, rules, wall)
       IN  /\ r.next_id <= MaxRuleId + 1
           /\ privacy_rules' = r.rules
           /\ next_rule_id' = r.next_id
    /\ h_pc' = [h_pc EXCEPT ![h] = "r_list"]
    /\ UNCHANGED <<clock_vars, sessions, engine_vars, worker_vars, stop_pc,
                   compiled_rules, h_rows>>
    /\ UNCHANGED request_vars
    /\ UNCHANGED <<app_categories, live_workers>>

\* restore_backup: refresh_privacy_rules, db.list_privacy_rules()
RestoreRefreshList(h) ==
    /\ h_pc[h] = "r_list"
    /\ h_rows' = [h_rows EXCEPT ![h] = ListPrivacyRules(privacy_rules)]
    /\ h_pc' = [h_pc EXCEPT ![h] = "r_update"]
    /\ UNCHANGED <<clock_vars, db_vars, engine_vars, worker_vars, stop_pc, compiled_rules>>
    /\ UNCHANGED request_vars
    /\ UNCHANGED <<app_categories, live_workers>>

\* restore_backup: refresh_privacy_rules, privacy_filter.update_rules(...)
RestoreRefreshUpdate(h) ==
    /\ h_pc[h] = "r_update"
    /\ compiled_rules' = UpdateRules(h_rows[h])
    /\ h_rows' = [h_rows EXCEPT ![h] = <<>>]
    /\ h_pc' = [h_pc EXCEPT ![h] = "r_resume"]
    /\ UNCHANGED <<clock_vars, db_vars, engine_vars, worker_vars, stop_pc>>
    /\ UNCHANGED request_vars
    /\ UNCHANGED <<app_categories, live_workers>>

\* restore_backup: `finally: if not was_paused: tracker.set_paused(False)`
RestoreResume(h) ==
    /\ h_pc[h] = "r_resume"
    /\ IF h_was_paused[h]
       THEN UNCHANGED paused
       ELSE lock = "free" /\ paused' = FALSE
    /\ h_pc' = [h_pc EXCEPT ![h] = "idle"]
    /\ UNCHANGED <<clock_vars, db_vars, current, last_idle_seconds, excluded_matches,
                   sleep_segments, worker_vars, stop_pc, compiled_rules, h_rows>>
    /\ UNCHANGED request_vars
    /\ UNCHANGED <<app_categories, live_workers>>

\* a restore request in progress beside the engine and the control requests
NextRestore ==
    \/ ClockTick
    \/ Start
    \/ Pause
    \/ WorkerTop
    \/ WorkerDetect(OneApp, IdleDisabled)
    \/ WorkerLocked
    \/ \E h \in Handlers : RestoreBegin(h)
    \/ \E h \in Handlers : RestorePause(h)
    \/ \E h \in Handlers, replace \in BOOLEAN : RestoreClear(h, replace)
    \/ \E h \in Handlers : RestoreBulk(h, RestoreSessions)
    \/ \E h \in Handlers : RestoreRules(h, RestorePrivacyRules)
    \/ \E h \in Handlers : RestoreRefreshList(h)
    \/ \E h \in Handlers : RestoreRefreshUpdate(h)
    \/ \E h \in Handlers : RestoreResume(h)

SpecRestore == Init /\ [][NextRestore]_vars

(* --------------------------- the store's calls ------------------------- *)

\* _map_session_row of the row with rowid id
MapSessionRow(id, row) ==
    [id |-> id, start_ts |-> row.start_ts, end_ts |-> row.end_ts,
     app |-> NormalizeAppLabel(row.app), title |-> row.title, source |-> row.source]

\* the orders in which a SELECT ... ORDER BY start_ts ASC may return the rows
\* with the rowids in ids: rows with equal start_ts in any order
OrderedBy(table, ids) ==
    {o \in [1..Cardinality(ids) -> ids] :
        /\ \A i, j \in DOMAIN o : i # j => o[i] # o[j]
        /\ \A i, j \in DOMAIN o : i < j => table[o[i]].start_ts <= table[o[j]].start_ts}

\* overlapping_sessions with >= and <= where the query has > and <
OverlappingSessionsTouching(table, start_ts, end_ts) ==
    LET ids == {i \in DOMAIN table :
                   table[i].end_ts >= start_ts /\ table[i].start_ts <= end_ts}
    IN  {[k \in DOMAIN o |-> MapSessionRow(o[k], table[o[k]])] :
            o \in OrderedBy(table, ids)}

\* overlapping_sessions: the lists the query may return
OverlappingSessions(table, start_ts, end_ts) ==
    LET ids == {i \in DOMAIN table :
                   table[i].end_ts > start_ts /\ table[i].start_ts < end_ts}
    IN  {[k \in DOMAIN o |-> MapSessionRow(o[k], table[o[k]])] :
            o \in OrderedBy(table, ids)}

\* all_sessions: the lists the query may return
AllSessions(table) ==
    {[k \in DOMAIN o |-> MapSessionRow(o[k], table[o[k]])] :
        o \in OrderedBy(table, DOMAIN table)}

\* what a call of the store returned
Returned(call, args, value) == [call |-> call, args |-> args, value |-> value]

\* app labels handed to the store
StoreLabels ==
    {<<>>, <<" ">>, <<" ","D","e","s","c","o","n","o","c","i","d","o">>,
     <<"E","d","i","t","o","r"," ">>}

\* timestamps handed to the store
StoreTimes == 0..2

\* rows handed to insert_session and bulk_insert_sessions
StoreRows ==
    {SessionRow(a, b, app, <<>>, Restore) :
        a \in StoreTimes, b \in StoreTimes, app \in StoreLabels}

\* lists of rows handed to bulk_insert_sessions
StoreBatches ==
    LET some == {r \in StoreRows : r.start_ts <= 1 /\ r.end_ts >= 1 /\ r.app # <<>>}
    IN  {<<>>} \cup {<<r>> : r \in some} \cup {<<r, q>> : r \in some, q \in some}

\* a row written before app labels were normalized on insert
LegacyRow == SessionRow(0, 1, Desconocido, <<>>, X11)

\* the sessions table of the database file the program is started on
LegacyTables == {<<>>, <<LegacyRow>>}

InitDb ==
    /\ sessions \in LegacyTables
    /\ wall = 0
    /\ mono = 0
    /\ privacy_rules = {}
    /\ next_rule_id = 1
    /\ compiled_rules = <<>>
    /\ thread = "none"
    /\ stop_event = FALSE
    /\ current = None
    /\ paused = FALSE
    /\ last_idle_seconds = Nil
    /\ excluded_matches = 0
    /\ sleep_segments = 0
    /\ last_wall_ts = Nil
    /\ last_mono_ts = Nil
    /\ w_pc = "top"
    /\ w_now_wall = 0
    /\ w_now_mono = 0
    /\ w_detected = None
    /\ w_idle = Nil
    /\ stop_pc = "idle"
    /\ h_pc = [h \in Requests |-> "idle"]
    /\ h_rows = [h \in Requests |-> <<>>]
    /\ lock = "free"
    /\ status_snapshot = None
    /\ w_open = None
    /\ h_i = [h \in Requests |-> 1]
    /\ h_compiled = [h \in Requests |-> <<>>]
    /\ h_was_paused = [h \in Requests |-> FALSE]
    /\ db_result = None
    /\ app_categories = {}
    /\ live_workers = 0

\* a call of bulk_insert_sessions and the count it returns
\* insert_session called directly; it returns None
DbInsertSessionReturned(r) ==
    /\ sessions' = InsertSession(sessions, r.start_ts, r.end_ts, r.app, r.title, r.source)
    /\ Len(sessions') <= MaxSessions
    /\ db_result' = Returned("insert_session", r, None)
    /\ UNCHANGED <<clock_vars, privacy_rules, next_rule_id, engine_vars, worker_vars,
                   handler_vars, stop_pc>>
    /\ UNCHANGED <<lock, status_snapshot, w_open, h_i, h_compiled, h_was_paused>>
    /\ UNCHANGED <<app_categories, live_workers>>

DbBulkInsertCounted(rows) ==
    /\ LET r == BulkInsertSessions(sessions, rows)
       IN  /\ Len(r.sessions) <= MaxSessions
           /\ sessions' = r.sessions
           /\ db_result' = Returned("bulk_insert_sessions", rows, r.inserted)
    /\ UNCHANGED <<clock_vars, privacy_rules, next_rule_id, engine_vars, worker_vars,
                   handler_vars, stop_pc>>
    /\ UNCHANGED <<lock, status_snapshot, w_open, h_i, h_compiled, h_was_paused>>
    /\ UNCHANGED <<app_categories, live_workers>>

DbOverlappingSessions(start_ts, end_ts) ==
    /\ \E value \in OverlappingSessions(sessions, start_ts, end_ts) :
          db_result' = Returned("overlapping_sessions", <<start_ts, end_ts>>, value)
    /\ UNCHANGED <<clock_vars, db_vars, engine_vars, worker_vars, handler_vars, stop_pc>>
    /\ UNCHANGED <<lock, status_snapshot, w_open, h_i, h_compiled, h_was_paused>>
    /\ UNCHANGED <<app_categories, live_workers>>

DbAllSessions ==
    /\ \E value \in AllSessions(sessions) :
          db_result' = Returned("all_sessions", <<>>, value)
    /\ UNCHANGED <<clock_vars, db_vars, engine_vars, worker_vars, handler_vars, stop_pc>>
    /\ UNCHANGED <<lock, status_snapshot, w_open, h_i, h_compiled, h_was_paused>>
    /\ UNCHANGED <<app_categories, live_workers>>

DbClearSessions ==
    /\ sessions' = <<>>
    /\ db_result' = Returned("clear_sessions", <<>>, Len(sessions))
    /\ UNCHANGED <<clock_vars, privacy_rules, next_rule_id, engine_vars, worker_vars,
                   handler_vars, stop_pc>>
    /\ UNCHANGED <<lock, status_snapshot, w_open, h_i, h_compiled, h_was_paused>>
    /\ UNCHANGED <<app_categories, live_workers>>

\* the store called with every kind of row, on a new or an old database file
NextDb ==
    \/ \E r \in StoreRows : DbInsertSessionReturned(r)
    \/ \E rows \in StoreBatches : DbBulkInsertCounted(rows)
    \/ \E a \in StoreTimes, b \in StoreTimes : DbOverlappingSessions(a, b)
    \/ DbAllSessions
    \/ DbClearSessions

SpecDb == InitDb /\ [][NextDb]_vars

(* ------------------------ the store's rule calls ----------------------- *)

RulePayload(scope, match_mode, pattern, enabled) ==
    [scope |-> scope, match_mode |-> match_mode, pattern |-> pattern, enabled |-> enabled]

\* arguments of upsert_privacy_rule: a rule, the same rule written with
\* blanks and capitals, a second rule, a regex that does not compile, a
\* blank pattern, an unknown scope and an unknown match mode
StoreRulePayloads ==
    {RulePayload(ScopeApp, ModeExact, <<"D","e","e","z","e","r">>, TRUE),
     RulePayload(<<" ","A","P","P">>, <<"E","x","a","c","t"," ">>,
                 <<" ","D","e","e","z","e","r"," ">>, FALSE),
     RulePayload(ScopeTitle, ModeContains, <<"d","o","c">>, TRUE),
     RulePayload(ScopeApp, ModeRegex, <<"(">>, TRUE),
     RulePayload(ScopeApp, ModeExact, <<" ">>, TRUE),
     RulePayload(<<"u","r","l">>, ModeExact, <<"D","e","e","z","e","r">>, TRUE),
     RulePayload(ScopeApp, <<"g","l","o","b">>, <<"D","e","e","z","e","r">>, TRUE)}

RuleIds == 1..(MaxRuleId + 1)

\* the row upsert_privacy_rule reads back: the one with the normalized key
RuleWithKey(table, scope, pattern, match_mode) ==
    CHOOSE r \in table : /\ r.scope = NormalizeRuleScope(scope).value
                         /\ r.match_mode = NormalizeMatchMode(match_mode).value
                         /\ r.pattern = NormalizeRulePattern(pattern).value

DbUpsertPrivacyRule(p) ==
    /\ LET r == UpsertPrivacyRule(privacy_rules, next_rule_id, p.scope, p.pattern,
                                  p.match_mode, p.enabled, wall)
       IN  IF r = ValueError
           THEN /\ db_result' = Returned("upsert_privacy_rule", p, ValueError)
                /\ UNCHANGED <<privacy_rules, next_rule_id>>
           ELSE /\ r.next_id <= MaxRuleId + 1
                /\ privacy_rules' = r.rules
                /\ next_rule_id' = r.next_id
                /\ db_result' = Returned("upsert_privacy_rule", p,
                                         RuleWithKey(r.rules, p.scope, p.pattern,
                                                     p.match_mode))
    /\ UNCHANGED <<clock_vars, sessions, engine_vars, worker_vars, handler_vars, stop_pc>>
    /\ UNCHANGED <<lock, status_snapshot, w_open, h_i, h_compiled, h_was_paused>>
    /\ UNCHANGED <<app_categories, live_workers>>

DbSetPrivacyRuleEnabled(rule_id, enabled) ==
    /\ privacy_rules' = SetPrivacyRuleEnabled(privacy_rules, rule_id, enabled, wall)
    /\ db_result' = Returned("set_privacy_rule_enabled", <<rule_id, enabled>>,
                             IF \E r \in privacy_rules' : r.id = rule_id
                             THEN CHOOSE r \in privacy_rules' : r.id = rule_id
                             ELSE None)
    /\ UNCHANGED <<clock_vars, sessions, next_rule_id, engine_vars, worker_vars,
                   handler_vars, stop_pc>>
    /\ UNCHANGED <<lock, status_snapshot, w_open, h_i, h_compiled, h_was_paused>>
    /\ UNCHANGED <<app_categories, live_workers>>

DbDeletePrivacyRule(rule_id) ==
    /\ privacy_rules' = DeletePrivacyRule(privacy_rules, rule_id)
    /\ db_result' = Returned("delete_privacy_rule", rule_id,
                             \E r \in privacy_rules : r.id = rule_id)
    /\ UNCHANGED <<clock_vars, sessions, next_rule_id, engine_vars, worker_vars,
                   handler_vars, stop_pc>>
    /\ UNCHANGED <<lock, status_snapshot, w_open, h_i, h_compiled, h_was_paused>>
    /\ UNCHANGED <<app_categories, live_workers>>

DbClearPrivacyRules ==
    /\ privacy_rules' = {}
    /\ db_result' = Returned("clear_privacy_rules", <<>>, Cardinality(privacy_rules))
    /\ UNCHANGED <<clock_vars, sessions, next_rule_id, engine_vars, worker_vars,
                   handler_vars, stop_pc>>
    /\ UNCHANGED <<lock, status_snapshot, w_open, h_i, h_compiled, h_was_paused>>
    /\ UNCHANGED <<app_categories, live_workers>>

\* the rule table under every sequence of the store's rule calls
NextRuleStore ==
    \/ ClockTick
    \/ \E p \in StoreRulePayloads : DbUpsertPrivacyRule(p)
    \/ \E id \in RuleIds, enabled \in BOOLEAN : DbSetPrivacyRuleEnabled(id, enabled)
    \/ \E id \in RuleIds : DbDeletePrivacyRule(id)
    \/ DbClearPrivacyRules

SpecRuleStore == Init /\ [][NextRuleStore]_vars

(* ---------------------- concurrent rule requests ----------------------- *)

\* DELETE /api/privacy/rules/{rule_id} up to the refresh, which it runs
\* whether or not a rule was removed
RemovePrivacyRule(h, rule_id) ==
    /\ h_pc[h] = "idle"
    /\ privacy_rules' = DeletePrivacyRule(privacy_rules, rule_id)
    /\ h_pc' = [h_pc EXCEPT ![h] = "list"]
    /\ UNCHANGED <<clock_vars, sessions, next_rule_id, engine_vars, worker_vars, stop_pc,
                   compiled_rules, h_rows>>
    /\ UNCHANGED request_vars
    /\ UNCHANGED <<app_categories, live_workers>>

\* two rule-management requests served by two threads of the pool
NextRules ==
    \/ ClockTick
    \/ \E h \in Requests :
          \/ \E payload \in TwoRulePayloads : CreatePrivacyRule(h, payload)
          \/ \E id \in 1..MaxRuleId, enabled \in BOOLEAN : PatchPrivacyRule(h, id, enabled)
          \/ \E id \in 1..MaxRuleId : RemovePrivacyRule(h, id)
          \/ RefreshList(h)
          \/ RefreshUpdate(h)

SpecRules == Init /\ [][NextRules]_vars

(* ---------------------- backup export and restore ---------------------- *)

\* the orders in which the rows of a table may be listed
ListingsOf(table) ==
    {o \in [1..Cardinality(table) -> table] : \A i, j \in DOMAIN o : i # j => o[i] # o[j]}

\* sessions_payload of export_backup for the rows all_sessions returned
SessionsPayload(rows) ==
    [k \in DOMAIN rows |-> SessionRow(rows[k].start_ts, rows[k].end_ts, rows[k].app,
                                      rows[k].title, rows[k].source)]

\* GET /api/backup/export: the payload; the privacy rules carry their id
\* and updated_ts, which BackupPrivacyRule ignores on the way back
ExportBackup ==
    /\ \E rows \in AllSessions(sessions), cats \in ListingsOf(app_categories) :
          db_result' = Returned("export_backup", <<>>,
                                [sessions |-> SessionsPayload(rows),
                                 categories |-> cats,
                                 privacy_rules |-> ListPrivacyRules(privacy_rules)])
    /\ UNCHANGED <<clock_vars, db_vars, engine_vars, worker_vars, handler_vars, stop_pc>>
    /\ UNCHANGED <<lock, status_snapshot, w_open, h_i, h_compiled, h_was_paused>>
    /\ UNCHANGED <<app_categories, live_workers>>

\* POST /api/backup/restore?replace=true with the payload the last export
\* returned, while no tracker thread runs and no other request is served
RestoreBackupReplace ==
    /\ db_result # None
    /\ db_result.call = "export_backup"
    /\ thread # "alive"
    /\ lock = "free"
    /\ LET payload == db_result.value
           flushed == FlushLocked(Engine, wall)
           bulk    == BulkInsertSessions(<<>>, RestoreSessionRows(payload.sessions))
           cats    == BulkSetAppCategories({}, RestoreCategoryRows(payload.categories))
           upserts == RestoreUpsertRules({}, next_rule_id, payload.privacy_rules, wall)
       IN  /\ upserts.next_id <= MaxRuleId + 1
           /\ current' = flushed.current
           /\ sessions' = bulk.sessions
           /\ app_categories' = cats.categories
           /\ privacy_rules' = upserts.rules
           /\ next_rule_id' = upserts.next_id
           /\ compiled_rules' = UpdateRules(ListPrivacyRules(upserts.rules))
           /\ db_result' = Returned("restore_backup", payload,
                                    [inserted_sessions |-> bulk.inserted,
                                     saved_categories |-> cats.saved,
                                     saved_privacy_rules |-> Cardinality(upserts.rules)])
    /\ UNCHANGED <<clock_vars, paused, last_idle_seconds, excluded_matches, sleep_segments,
                   worker_vars, stop_pc, h_pc, h_rows>>
    /\ UNCHANGED <<lock, status_snapshot, w_open, h_i, h_compiled, h_was_paused>>
    /\ UNCHANGED live_workers

\* PUT /api/categories: db.set_app_category
DbSetAppCategory(app, category) ==
    /\ app_categories' = SetAppCategory(app_categories, app, category)
    /\ db_result' = Returned("set_app_category", <<app, category>>,
                             <<NormalizeAppLabel(app), NormalizeCategoryLabel(category)>>)
    /\ UNCHANGED <<clock_vars, db_vars, engine_vars, worker_vars, handler_vars, stop_pc>>
    /\ UNCHANGED <<lock, status_snapshot, w_open, h_i, h_compiled, h_was_paused>>
    /\ UNCHANGED live_workers

\* rows, categories and rules the store is filled with before an export
BackupRows ==
    {SessionRow(1, 2, WEditor.app, WEditor.title, X11),
     SessionRow(1, 2, SleepApp, <<>>, SleepSource)}

BackupCategories ==
    {CategoryRow(WEditor.app, <<"W","o","r","k"," ">>),
     CategoryRow(<<" ","D","e","s","c","o","n","o","c","i","d","o">>, <<" ">>)}

BackupRulePayloads ==
    {RulePayload(ScopeApp, ModeExact, <<"D","e","e","z","e","r">>, TRUE),
     RulePayload(ScopeTitle, ModeRegex, <<"(">>, FALSE)}

\* a store that is filled, exported and restored from the export
NextBackup ==
    \/ ClockTick
    \/ \E r \in BackupRows : DbInsertSessionReturned(r)
    \/ \E c \in BackupCategories : DbSetAppCategory(c.app, c.category)
    \/ \E p \in BackupRulePayloads : DbUpsertPrivacyRule(p)
    \/ ExportBackup
    \/ RestoreBackupReplace

SpecBackup == InitDb /\ [][NextBackup]_vars

(* ------------------------- the open-window listing --------------------- *)

Privado == <<"P","r","i","v","a","d","o">>

OcultoPorRegla ==
    <<"O","c","u","l","t","o"," ","p","o","r"," ","r","e","g","l","a"," ",
      "d","e"," ","p","r","i","v","a","c","i","d","a","d">>

PrivacySource == <<"p","r","i","v","a","c","y">>

\* an ActiveWindow with its pid and window_id; an optional field is the
\* empty sequence when it is None and holds its value otherwise
DetectedWindow(app, title, source, pid, window_id) ==
    [app |-> app, title |-> title, source |-> source, pid |-> pid, window_id |-> window_id]

\* the payload of one window that lets its pid through when it is private
WindowPayloadKeepsPid(compiled, win) ==
    LET is_private == IsExcluded(compiled, win.app, win.title)
    IN  [app       |-> IF is_private THEN Privado ELSE win.app,
         title     |-> IF is_private THEN OcultoPorRegla ELSE win.title,
         source    |-> IF is_private THEN PrivacySource ELSE win.source,
         pid       |-> win.pid,
         window_id |-> IF is_private THEN <<>> ELSE win.window_id,
         private   |-> is_private]

\* the payload windows() builds for one window
WindowPayload(compiled, win) ==
    LET is_private == IsExcluded(compiled, win.app, win.title)
    IN  [app       |-> IF is_private THEN Privado ELSE win.app,
         title     |-> IF is_private THEN OcultoPorRegla ELSE win.title,
         source    |-> IF is_private THEN PrivacySource ELSE win.source,
         pid       |-> IF is_private THEN <<>> ELSE win.pid,
         window_id |-> IF is_private THEN <<>> ELSE win.window_id,
         private   |-> is_private]

\* the keys of by_app in the order they were inserted
RECURSIVE ByAppKeys(_)
ByAppKeys(items) ==
    IF items = <<>> THEN <<>>
    ELSE LET before == ByAppKeys(SubSeq(items, 1, Len(items) - 1))
             name   == items[Len(items)].app
         IN  IF \E i \in DOMAIN before : before[i] = name THEN before
             ELSE Append(before, name)

\* sorted(by_app.items(), key=count, reverse=True): a stable sort, so
\* entries of equal count keep their insertion order
RECURSIVE SortedByCount(_)
SortedByCount(entries) ==
    IF entries = <<>> THEN <<>>
    ELSE LET before == SortedByCount(SubSeq(entries, 1, Len(entries) - 1))
             entry  == entries[Len(entries)]
             k      == Cardinality({i \in DOMAIN before : before[i].windows >= entry.windows})
         IN  SubSeq(before, 1, k) \o <<entry>> \o SubSeq(before, k + 1, Len(before))

AppCounts(items) ==
    LET keys == ByAppKeys(items)
    IN  SortedByCount([k \in DOMAIN keys |->
                          [app |-> keys[k],
                           windows |-> Cardinality({i \in DOMAIN items :
                                                       items[i].app = keys[k]})]])

\* the response of GET /api/windows for what the detector reported
WindowsResponse(compiled, active, open_windows) ==
    LET items == [k \in DOMAIN open_windows |-> WindowPayload(compiled, open_windows[k])]
    IN  [count         |-> Len(items),
         distinct_apps |-> Len(ByAppKeys(items)),
         app_counts    |-> AppCounts(items),
         items         |-> items,
         active        |-> IF active = None THEN <<>>
                           ELSE <<WindowPayload(compiled, active)>>]

\* windows the detector can report
OpenWindowChoices ==
    {DetectedWindow(WEditor.app, WEditor.title, X11, <<7>>, <<<<"a">>>>),
     DetectedWindow(WEditor.app, <<"n","o","t","e","s">>, X11, <<>>, <<<<"b">>>>),
     DetectedWindow(WDeezer.app, WDeezer.title, X11, <<8>>, <<<<"c">>>>),
     DetectedWindow(<<"d","e","e","z","e","r"," ">>, <<"F","l","o","w">>, X11, <<9>>, <<>>)}

\* what list_windows() can return: no window, or two distinct windows
WindowLists ==
    {<<>>} \cup {l \in [1..2 -> OpenWindowChoices] : l[1] # l[2]}

\* what detect() can return to the listing
ActiveChoices ==
    {None, DetectedWindow(WDeezer.app, WDeezer.title, X11, <<8>>, <<<<"c">>>>),
     DetectedWindow(<<"d","e","e","z","e","r"," ">>, <<"F","l","o","w">>, X11, <<9>>, <<>>)}

\* bodies of POST /api/privacy/rules for the listing
WindowRulePayloads ==
    {RulePayload(ScopeApp, ModeExact, <<"D","e","e","z","e","r">>, TRUE),
     RulePayload(ScopeTitle, ModeContains, <<"D","o","c">>, TRUE)}

\* GET /api/windows
Windows(active, open_windows) ==
    /\ db_result' = Returned("windows", [active |-> active, open_windows |-> open_windows],
                             WindowsResponse(compiled_rules, active, open_windows))
    /\ UNCHANGED <<clock_vars, db_vars, engine_vars, worker_vars, handler_vars, stop_pc>>
    /\ UNCHANGED <<lock, status_snapshot, w_open, h_i, h_compiled, h_was_paused>>
    /\ UNCHANGED <<app_categories, live_workers>>

\* the listing beside the rule-management requests, one request at a time
NextWindows ==
    \/ \E h \in Handlers, payload \in WindowRulePayloads : CreatePrivacyRule(h, payload)
    \/ \E h \in Handlers, rule_id \in 1..next_rule_id, enabled \in BOOLEAN :
          PatchPrivacyRule(h, rule_id, enabled)
    \/ \E h \in Handlers : RefreshList(h)
    \/ \E h \in Handlers : RefreshUpdate(h)
    \/ \E active \in ActiveChoices, open_windows \in WindowLists :
          Windows(active, open_windows)

SpecWindows == Init /\ [][NextWindows]_vars

(* ---------------- the engine on a store that may reject writes --------- *)

\* the exception a rejected write raises (sqlite3.Error)
StoreError == [kind |-> "StoreError"]

\* the outcome of a locked helper: the engine state it left and whether
\* it raised
Outcome(e, raised) == [engine |-> e, raised |-> raised]

\* _flush_locked that clears the segment although the write raised
FlushLockedStoreClears(e, end_ts, up) ==
    IF up THEN Outcome(FlushLocked(e, end_ts), FALSE)
    ELSE IF e.current = None THEN Outcome(e, FALSE)
    ELSE IF end_ts <= e.current.start_ts THEN Outcome([e EXCEPT !.current = None], FALSE)
    ELSE Outcome([e EXCEPT !.current = None], TRUE)

\* _flush_locked on a store that accepts writes (up) or rejects them:
\* insert_session returns before it touches the store when end_ts <=
\* start_ts, and a write that raises leaves the table and _current as they are
FlushLockedStore(e, end_ts, up) ==
    IF up THEN Outcome(FlushLocked(e, end_ts), FALSE)
    ELSE IF e.current = None THEN Outcome(e, FALSE)
    ELSE IF end_ts <= e.current.start_ts THEN Outcome([e EXCEPT !.current = None], FALSE)
    ELSE Outcome(e, TRUE)

\* _record_sleep_gap_locked: the write of the sleep row raises as well
RecordSleepGapLockedStore(e, start_ts, end_ts, up) ==
    IF up THEN Outcome(RecordSleepGapLocked(e, start_ts, end_ts), FALSE)
    ELSE LET f == FlushLockedStore(e, start_ts, up)
         IN  IF f.raised \/ end_ts > start_ts THEN Outcome(f.engine, TRUE)
             ELSE Outcome([f.engine EXCEPT !.sleep_segments = f.engine.sleep_segments + 1],
                          FALSE)

\* _ingest_locked: a flush that raises ends it before the new segment is opened
IngestLockedStore(e, compiled, now_ts, detected, up) ==
    IF up THEN Outcome(IngestLocked(e, compiled, now_ts, detected), FALSE)
    ELSE IF detected = None THEN FlushLockedStore(e, now_ts, up)
    ELSE IF ShouldExclude(compiled, detected)
    THEN FlushLockedStore([e EXCEPT !.excluded_matches = e.excluded_matches + 1],
                          now_ts, up)
    ELSE IF IsUnidentified(detected) THEN Outcome(e, FALSE)
    ELSE IF e.current = None
    THEN Outcome([e EXCEPT !.current = CurrentSession(detected.app, detected.title,
                                                      detected.source, now_ts)], FALSE)
    ELSE IF /\ e.current.app = detected.app
            /\ e.current.title = detected.title
            /\ e.current.source = detected.source
    THEN Outcome(e, FALSE)
    ELSE LET f == FlushLockedStore(e, now_ts, up)
         IN  IF f.raised THEN f
             ELSE Outcome([f.engine EXCEPT
                              !.current = CurrentSession(detected.app, detected.title,
                                                         detected.source, now_ts)], FALSE)

\* the critical section of one iteration of _run
TickLockedStore(e, compiled, is_paused, now_wall, now_mono, last_wall, last_mono, detected, idle_seconds, up) ==
    LET gap == ComputeSleepGap(now_wall, now_mono, last_wall, last_mono)
    IN  IF is_paused THEN FlushLockedStore(e, now_wall, up)
        ELSE LET g == IF gap[1] # Nil /\ gap[2] # Nil
                      THEN RecordSleepGapLockedStore(e, gap[1], gap[2], up)
                      ELSE Outcome(e, FALSE)
             IN  IF g.raised THEN g
                 ELSE IngestLockedStore(g.engine, compiled, now_wall,
                                        ApplyIdleState(detected, idle_seconds), up)

\* what a call returned or raised, on a store that was up or not
Ended(call, up, raised) ==
    Returned(call, [store_up |-> up], IF raised THEN StoreError ELSE None)

\* _run's critical section and the bookkeeping after it; _run catches
\* nothing, so an exception of the store leaves the loop and ends the thread
WorkerLockedStore(up) ==
    /\ lock = "free"
    /\ thread = "alive"
    /\ w_pc = "lock"
    /\ LET r == TickLockedStore(Engine, compiled_rules, paused, w_now_wall, w_now_mono,
                                last_wall_ts, last_mono_ts, w_detected, w_idle, up)
       IN  /\ r.engine.excluded_matches <= MaxExcluded
           /\ SetEngine(r.engine)
           /\ db_result' = Ended("_run", up, r.raised)
           /\ IF r.raised
              THEN /\ thread' = "dead"
                   /\ live_workers' = live_workers - 1
                   /\ UNCHANGED <<last_wall_ts, last_mono_ts>>
              ELSE /\ last_wall_ts' = w_now_wall
                   /\ last_mono_ts' = w_now_mono
                   /\ UNCHANGED <<thread, live_workers>>
    /\ last_idle_seconds' = w_idle
    /\ w_pc' = "top"
    /\ w_detected' = None
    /\ w_idle' = Nil
    /\ UNCHANGED <<clock_vars, privacy_rules, next_rule_id, paused, handler_vars,
                   stop_pc, stop_event, w_now_wall, w_now_mono>>
    /\ UNCHANGED <<lock, status_snapshot, w_open, h_i, h_compiled, h_was_paused>>
    /\ UNCHANGED app_categories

\* set_paused: the flag is set before the flush that may raise
SetPausedStore(p, up) ==
    /\ lock = "free"
    /\ paused' = p
    /\ LET r == IF p THEN FlushLockedStore(Engine, wall, up) ELSE Outcome(Engine, FALSE)
       IN  /\ SetEngine(r.engine)
           /\ db_result' = Ended("set_paused", up, r.raised)
    /\ UNCHANGED <<clock_vars, privacy_rules, next_rule_id, last_idle_seconds,
                   handler_vars, worker_vars, stop_pc>>
    /\ UNCHANGED <<lock, status_snapshot, w_open, h_i, h_compiled, h_was_paused>>
    /\ UNCHANGED <<app_categories, live_workers>>

\* stop(): the final flush under the lock
StopFlushStore(up) ==
    /\ lock = "free"
    /\ stop_pc = "flush"
    /\ LET r == FlushLockedStore(Engine, wall, up)
       IN  /\ SetEngine(r.engine)
           /\ db_result' = Ended("stop", up, r.raised)
    /\ stop_pc' = "idle"
    /\ UNCHANGED <<clock_vars, privacy_rules, next_rule_id, paused, last_idle_seconds,
                   handler_vars, worker_vars>>
    /\ UNCHANGED <<lock, status_snapshot, w_open, h_i, h_compiled, h_was_paused>>
    /\ UNCHANGED <<app_categories, live_workers>>

\* the engine on a store that may reject the writes of any step
NextFailure ==
    \/ ClockTick
    \/ Start
    \/ StopSet
    \/ StopJoin
    \/ \E up \in BOOLEAN : StopFlushStore(up)
    \/ \E p, up \in BOOLEAN : SetPausedStore(p, up)
    \/ WorkerTop
    \/ WorkerDetect(TwoApps, IdleDisabled)
    \/ \E up \in BOOLEAN : WorkerLockedStore(up)

SpecFailure == Init /\ [][NextFailure]_vars

(* --------------------- the filter called on its own -------------------- *)

\* rules handed to update_rules: three that can match, one whose regex
\* does not compile, one that is disabled, one whose regex matches every
\* string, one whose regex holds a repetition count that is too large
FilterRules ==
    {RuleRow(1, ScopeApp, ModeContains, <<"d","e","e">>, TRUE, 0),
     RuleRow(2, ScopeTitle, ModeExact, <<"M","i","x">>, TRUE, 0),
     RuleRow(3, ScopeTitle, ModeContains, <<"m","i","x"," ">>, TRUE, 0),
     RuleRow(4, ScopeApp, ModeRegex, <<"(">>, TRUE, 0),
     RuleRow(5, ScopeApp, ModeExact, <<"D","e","e","z","e","r">>, FALSE, 0),
     RuleRow(6, ScopeTitle, ModeRegex, <<".","*">>, TRUE, 0),
     RuleRow(7, ScopeApp, ModeRegex,
             <<"e","{","9","9","9","9","9","9","9","9","9","9","9","}">>, TRUE, 0)}

\* the lists of at most three different rules
FilterRuleLists ==
    UNION {{l \in [1..n -> FilterRules] : \A i, j \in 1..n : i # j => l[i] # l[j]} :
              n \in 0..3}

\* the (app, title) pairs the filter is asked about
FilterPairs ==
    {<<WDeezer.app, WDeezer.title>>, <<WEditor.app, WEditor.title>>,
     <<WDeezer.app, <<>>>>, <<<<>>, <<" ","m","i","x">>>>,
     <<WEditor.app, <<"R","e","m","i","x","e","s">>>>,
     <<WEditor.app, WDeezer.title>>, <<<<" ">>, WDeezer.title>>}

\* the exception re.compile raises for a repetition count that is too large
OverflowError == [kind |-> "OverflowError"]

\* update_rules reaches re.compile with a pattern that makes it raise
\* OverflowError, which `except re.error` does not catch
UpdateRulesRaises(rules) ==
    \E k \in DOMAIN rules :
        /\ rules[k].enabled
        /\ Strip(rules[k].pattern) # <<>>
        /\ rules[k].match_mode = ModeRegex
        /\ RegexOverflows(Strip(rules[k].pattern))

\* PrivacyFilter.update_rules(rules): when it raises, the assignment of
\* self._compiled_rules is not reached
UpdateRulesCall(rules) ==
    /\ IF UpdateRulesRaises(rules)
       THEN /\ UNCHANGED compiled_rules
            /\ db_result' = Returned("update_rules", rules, OverflowError)
       ELSE /\ compiled_rules' = UpdateRules(rules)
            /\ db_result' = Returned("update_rules", rules, None)
    /\ UNCHANGED <<clock_vars, db_vars, engine_vars, worker_vars, h_pc, h_rows, stop_pc>>
    /\ UNCHANGED <<lock, status_snapshot, w_open, h_i, h_compiled, h_was_paused>>
    /\ UNCHANGED <<app_categories, live_workers>>

\* PrivacyFilter.match_reason(app, title) and is_excluded(app, title)
MatchReasonCall(app, title) ==
    /\ db_result' = Returned("match_reason", [app |-> app, title |-> title],
                             [reason |-> MatchReason(compiled_rules, app, title),
                              excluded |-> IsExcluded(compiled_rules, app, title)])
    /\ UNCHANGED <<clock_vars, db_vars, engine_vars, worker_vars, handler_vars, stop_pc>>
    /\ UNCHANGED <<lock, status_snapshot, w_open, h_i, h_compiled, h_was_paused>>
    /\ UNCHANGED <<app_categories, live_workers>>

NextMatch ==
    \/ \E rules \in FilterRuleLists : UpdateRulesCall(rules)
    \/ \E pair \in FilterPairs : MatchReasonCall(pair[1], pair[2])

SpecMatch == Init /\ [][NextMatch]_vars

(* ---------------------- the lock around the worker's tick -------------- *)

\* the engine with its critical section in steps, next to callers of
\* status(), set_paused() and stop()
NextLock ==
    \/ ClockTick
    \/ Start
    \/ StopSet
    \/ StopJoin
    \/ StopFlush
    \/ Pause
    \/ WorkerTop
    \/ WorkerDetect(TwoApps, IdleDisabled)
    \/ WorkerAcquire
    \/ WorkerFlush
    \/ WorkerOpen
    \/ Status

SpecLock == Init /\ [][NextLock]_vars

(* ------------------------------ stop, then start ----------------------- *)

\* start() called after stop() has returned: the event is still set, no
\* start() has cleared it
StartAfterStop ==
    /\ stop_pc = "idle"
    /\ stop_event
    /\ StartThread
    /\ stop_pc' = "restarted"
    /\ UNCHANGED <<clock_vars, db_vars, engine_vars, handler_vars,
                   w_now_wall, w_now_mono, w_detected, w_idle>>
    /\ UNCHANGED request_vars
    /\ UNCHANGED app_categories

\* the engine started, stopped and started again
NextRestart ==
    \/ ClockTick
    \/ thread = "none" /\ Start
    \/ StopSet
    \/ StopJoin
    \/ StopFlush
    \/ StartAfterStop
    \/ WorkerTop
    \/ WorkerDetect(TwoApps, IdleDisabled)
    \/ WorkerLocked

SpecRestart == Init /\ [][NextRestart]_vars

(* ------------------------------ the reports ---------------------------- *)

\* the range of the report: the modelled time from its first second on
ReportRange == [start |-> 0, end |-> MaxMono + 1]

\* _clip_segment: None when nothing of the row lies in the range
ClipSegment(row, range_start, range_end) ==
    LET start_ts == IF row.start_ts > range_start THEN row.start_ts ELSE range_start
        end_ts   == IF row.end_ts < range_end THEN row.end_ts ELSE range_end
    IN  IF end_ts <= start_ts THEN None
        ELSE [app |-> row.app, title |-> row.title, source |-> row.source,
              start_ts |-> start_ts, end_ts |-> end_ts]

\* collect_segments with the synthetic row appended whatever the filter says
SyntheticSegmentUnfiltered(cur, compiled, now_ts, range_start, range_end) ==
    IF cur # None /\ range_start <= now_ts /\ now_ts < range_end
    THEN ClipSegment([start_ts |-> cur.start_ts, end_ts |-> now_ts, app |-> cur.app,
                      title |-> cur.title, source |-> cur.source],
                     range_start, range_end)
    ELSE None

\* collect_segments: the clipped synthetic row built from status()'s
\* current segment, or None when nothing is appended
SyntheticSegment(cur, compiled, now_ts, range_start, range_end) ==
    IF /\ cur # None
       /\ range_start <= now_ts
       /\ now_ts < range_end
       /\ ~IsExcluded(compiled, cur.app, cur.title)
    THEN ClipSegment([start_ts |-> cur.start_ts, end_ts |-> now_ts, app |-> cur.app,
                      title |-> cur.title, source |-> cur.source],
                     range_start, range_end)
    ELSE None

\* collect_segments: db.overlapping_sessions and the clipping of its rows
CollectQuery(h) ==
    /\ h_pc[h] = "idle"
    /\ \E rows \in OverlappingSessions(sessions, ReportRange.start, ReportRange.end) :
          h_rows' = [h_rows EXCEPT ![h] =
                        SelectSeq([k \in DOMAIN rows |->
                                      ClipSegment(rows[k], ReportRange.start,
                                                  ReportRange.end)],
                                  LAMBDA s : s # None)]
    /\ h_pc' = [h_pc EXCEPT ![h] = "c_status"]
    /\ UNCHANGED <<clock_vars, db_vars, engine_vars, worker_vars, stop_pc, compiled_rules>>
    /\ UNCHANGED request_vars
    /\ UNCHANGED <<app_categories, live_workers>>

\* collect_segments: tracker.status(), the clock reading, the filter's
\* verdict on the current segment and the synthetic row
CollectStatus(h) ==
    /\ h_pc[h] = "c_status"
    /\ lock = "free"
    /\ db_result' = Returned("collect_segments", h_rows[h],
                             [current |-> current,
                              synthetic |-> SyntheticSegment(current, compiled_rules, wall,
                                                             ReportRange.start,
                                                             ReportRange.end),
                              now_ts |-> wall])
    /\ h_pc' = [h_pc EXCEPT ![h] = "idle"]
    /\ h_rows' = [h_rows EXCEPT ![h] = <<>>]
    /\ UNCHANGED <<clock_vars, db_vars, engine_vars, worker_vars, stop_pc, compiled_rules>>
    /\ UNCHANGED <<lock, status_snapshot, w_open, h_i, h_compiled, h_was_paused>>
    /\ UNCHANGED <<app_categories, live_workers>>

\* the engine, a user who pauses and resumes it, and a report
NextReport ==
    \/ ClockTick
    \/ thread = "none" /\ Start
    \/ Pause
    \/ WorkerTop
    \/ WorkerDetect(TwoApps, IdleDisabled)
    \/ WorkerLocked
    \/ CollectQuery(1)
    \/ CollectStatus(1)

SpecReport == Init /\ [][NextReport]_vars

\* the engine and a report, nothing else
NextReportTicks ==
    \/ ClockTick
    \/ thread = "none" /\ Start
    \/ WorkerTop
    \/ WorkerDetect(TwoApps, IdleDisabled)
    \/ WorkerLocked
    \/ CollectQuery(1)
    \/ CollectStatus(1)

SpecReportTicks == Init /\ [][NextReportTicks]_vars

\* the engine, a report, and a request that creates an enabled privacy rule
NextReportRules ==
    \/ ClockTick
    \/ thread = "none" /\ Start
    \/ WorkerTop
    \/ WorkerDetect(TwoApps, IdleDisabled)
    \/ WorkerLocked
    \/ \E payload \in RulePayloads : CreatePrivacyRule(2, payload)
    \/ RefreshList(2)
    \/ RefreshUpdate(2)
    \/ CollectQuery(1)
    \/ CollectStatus(1)

SpecReportRules == Init /\ [][NextReportRules]_vars

(* ---------------------- a restore beside the pause control ------------- *)

\* POST /api/control/state, /api/control/pause and /api/control/resume
SetControlState(p) ==
    /\ lock = "free"
    /\ paused' = p
    /\ IF p THEN SetEngine(FlushLocked(Engine, wall))
            ELSE UNCHANGED <<current, sessions, excluded_matches, sleep_segments>>
    /\ db_result' = Returned("set_control_state", p, [ok |-> TRUE, paused |-> p])
    /\ UNCHANGED <<clock_vars, privacy_rules, next_rule_id, last_idle_seconds,
                   handler_vars, worker_vars, stop_pc>>
    /\ UNCHANGED <<lock, status_snapshot, w_open, h_i, h_compiled, h_was_paused>>
    /\ UNCHANGED <<app_categories, live_workers>>

\* restore_backup: a call inside the try block raises (the store, or
\* update_rules), and control passes to the finally block
RestoreRaises(h) ==
    /\ h_pc[h] \in {"r_clear", "r_bulk", "r_rules", "r_list", "r_update"}
    /\ h_pc' = [h_pc EXCEPT ![h] = "r_resume"]
    /\ h_rows' = [h_rows EXCEPT ![h] = <<>>]
    /\ UNCHANGED <<clock_vars, db_vars, engine_vars, worker_vars, stop_pc, compiled_rules>>
    /\ UNCHANGED request_vars
    /\ UNCHANGED <<app_categories, live_workers>>

\* a restore request beside the engine and the user's pause control
NextRestorePause ==
    \/ ClockTick
    \/ thread = "none" /\ Start
    \/ \E p \in BOOLEAN : SetControlState(p)
    \/ WorkerTop
    \/ WorkerDetect(OneApp, IdleDisabled)
    \/ WorkerLocked
    \/ RestoreBegin(1)
    \/ RestorePause(1)
    \/ \E replace \in BOOLEAN : RestoreClear(1, replace)
    \/ RestoreBulk(1, RestoreSessions)
    \/ RestoreRules(1, RestorePrivacyRules)
    \/ RestoreRefreshList(1)
    \/ RestoreRefreshUpdate(1)
    \/ RestoreRaises(1)
    \/ RestoreResume(1)

SpecRestorePause == Init /\ [][NextRestorePause]_vars

(* ------------------------- the sleep counter, as read ------------------ *)

\* one run of the engine, from start() to stop(), on a machine that may
\* suspend, with pause and resume; status() is read once the worker has exited
NextSleep ==
    \/ ClockTick
    \/ ClockSuspend
    \/ thread = "none" /\ Start
    \/ StopSet
    \/ StopJoin
    \/ StopFlush
    \/ Pause
    \/ WorkerTop
    \/ WorkerDetect(OneApp, IdleDisabled)
    \/ WorkerLocked
    \/ thread = "dead" /\ Status

SpecSleep == Init /\ [][NextSleep]_vars

(* ------------------------------ properties ----------------------------- *)

\* the step is the critical section of a tick
TickStep == w_pc = "lock" /\ w_pc' = "top"

\* the observation the tick ingests
Normalized == ApplyIdleState(w_detected, w_idle)

SleepGap == ComputeSleepGap(w_now_wall, w_now_mono, last_wall_ts, last_mono_ts)

GapDetected == SleepGap[1] # Nil /\ SleepGap[2] # Nil

SameKey(c, o) == c.app = o.app /\ c.title = o.title /\ c.source = o.source

InactiveKey(c) == c.app = Inactivo /\ c.title = <<>> /\ c.source = IdleSource

\* the rows the step appends to the sessions table
NewRows == SubSeq(sessions', Len(sessions) + 1, Len(sessions'))

NotSleepRow(r) == r.source # SleepSource

\* the session a flush of segment c at end_ts writes
Written(c, end_ts) ==
    SessionRow(c.start_ts, end_ts, NormalizeAppLabel(c.app), c.title, c.source)

\* the timestamp at which the step flushes the open segment
StepFlushTs ==
    IF TickStep
    THEN IF ~paused /\ GapDetected THEN SleepGap[1] ELSE w_now_wall
    ELSE wall

\* the tick ingests an identified, non-excluded observation equal to the open segment
SameObservationTick ==
    /\ TickStep
    /\ ~paused
    /\ current # None
    /\ Normalized # None
    /\ ~ShouldExclude(compiled_rules, Normalized)
    /\ ~IsUnidentified(Normalized)
    /\ SameKey(current, Normalized)

\* C1 as claimed: a non-paused tick whose normalized observation equals the
\* open segment keeps that segment, with its start_ts, and writes nothing.
C1_AsClaimed ==
    [][SameObservationTick => current' = current /\ sessions' = sessions]_vars

\* C1 (amended): a non-paused tick that detects no sleep gap and whose
\* normalized observation is identified, not excluded and equal to the open
\* segment keeps the segment and writes nothing; a segment a tick opens
\* starts at that tick's timestamp; and the step that ends a segment writes
\* at most one session for it, (its start_ts, the flush timestamp).
C1_SegmentContinuity ==
    [][/\ (SameObservationTick /\ ~GapDetected) =>
              current' = current /\ sessions' = sessions
       /\ (TickStep /\ current' # None /\ current' # current) =>
              current'.start_ts = w_now_wall
       /\ (current # None /\ current' # current) =>
              LET w == SelectSeq(NewRows, NotSleepRow)
              IN  /\ Len(w) <= 1
                  /\ Len(w) = 1 => w[1] = Written(current, StepFlushTs)
                  /\ Len(w) = 0 => StepFlushTs <= current.start_ts
      ]_vars

\* a tick later than the segment's start has left the segment open
C1_Witness ==
    /\ current # None
    /\ ~paused
    /\ w_pc = "top"
    /\ last_wall_ts # Nil
    /\ last_wall_ts > current.start_ts
    /\ sleep_segments = 0

\* C2: every stored session has end_ts > start_ts.
C2_PositiveDuration ==
    \A i \in DOMAIN sessions : sessions[i].end_ts > sessions[i].start_ts

\* the table holds a row of a direct write and a row the engine wrote
C2_Witness ==
    \E i, j \in DOMAIN sessions :
        sessions[i].source = Restore /\ sessions[j].source \in {X11, SleepSource}

\* C3 as claimed: no two sessions the engine wrote overlap in time.
C3_NoOverlap ==
    \A i, j \in DOMAIN sessions :
        i < j => \/ sessions[i].end_ts <= sessions[j].start_ts
                 \/ sessions[j].end_ts <= sessions[i].start_ts

\* C4 as claimed: no step writes a session whose app and title match a rule
\* of the filter's compiled (enabled) rules.
C4_NoExcludedWritten ==
    [][\A i \in 1..Len(NewRows) :
          ~IsExcluded(compiled_rules, NewRows[i].app, NewRows[i].title)]_vars

EnabledRuleMatches(app, title) ==
    \E r \in privacy_rules : r.enabled /\ ItemMatches(CompiledRule(r), app, title)

DisabledRuleMatches(app, title) ==
    \E r \in privacy_rules : ~r.enabled /\ ItemMatches(CompiledRule(r), app, title)

Refreshed == \A h \in Handlers : h_pc[h] = "idle"

\* C5: once the rules matching a pair are disabled and the filter is
\* refreshed, a non-paused tick observing the (identified) pair leaves a
\* segment for it open, opened at that tick unless it was open already, and
\* counts no exclusion; and the flush that ends such a segment later than it
\* started writes exactly its session.
C5_DisabledRuleTracksAgain ==
    [][/\ ( /\ TickStep
            /\ ~paused
            /\ Refreshed
            /\ Normalized # None
            /\ DisabledRuleMatches(Normalized.app, Normalized.title)
            /\ ~EnabledRuleMatches(Normalized.app, Normalized.title)
            /\ ~IsUnidentified(Normalized) ) =>
              /\ current' # None
              /\ SameKey(current', Normalized)
              /\ (current = None \/ ~SameKey(current, Normalized)) =>
                     current'.start_ts = w_now_wall
              /\ excluded_matches' = excluded_matches
       /\ ( /\ current # None
            /\ current' # current
            /\ DisabledRuleMatches(current.app, current.title)
            /\ ~EnabledRuleMatches(current.app, current.title)
            /\ StepFlushTs > current.start_ts ) =>
              NewRows = <<Written(current, StepFlushTs)>>
      ]_vars

\* after an exclusion was counted, a session of the pair of a disabled rule,
\* opened no earlier than the rule was disabled, is in the table
C5_Witness ==
    /\ excluded_matches >= 1
    /\ \E r \in privacy_rules, i \in DOMAIN sessions :
          /\ ~r.enabled
          /\ ItemMatches(CompiledRule(r), sessions[i].app, sessions[i].title)
          /\ sessions[i].start_ts >= r.updated_ts

\* C6: a non-paused tick at which the wall clock ran ahead of the monotonic
\* clock by at least sleep_gap_seconds since the previous tick appends the
\* open segment's session ending at the previous tick's timestamp (if it is
\* longer than zero) and then exactly one sleep session from the previous
\* tick's timestamp to this tick's, and counts one sleep segment.
C6_SleepGap ==
    [][( /\ TickStep
         /\ ~paused
         /\ last_wall_ts # Nil
         /\ last_mono_ts # Nil
         /\ (w_now_wall - last_wall_ts) - (w_now_mono - last_mono_ts)
                >= sleep_gap_seconds ) =>
           /\ NewRows =
                 (IF current # None /\ last_wall_ts > current.start_ts
                  THEN <<Written(current, last_wall_ts)>> ELSE <<>>)
                 \o <<SessionRow(last_wall_ts, w_now_wall, SleepApp, <<>>, SleepSource)>>
           /\ sleep_segments' = sleep_segments + 1
      ]_vars

\* a sleep session follows the session of the segment flushed at its start
C6_Witness ==
    /\ sleep_segments = 1
    /\ \E i \in 2..Len(sessions) :
          /\ sessions[i].source = SleepSource
          /\ sessions[i - 1].source # SleepSource
          /\ sessions[i - 1].end_ts = sessions[i].start_ts

IdleTick == TickStep /\ ~paused /\ w_idle # Nil /\ w_idle >= idle_threshold_seconds

SameWindowTick ==
    /\ TickStep
    /\ ~paused
    /\ ~GapDetected
    /\ current # None
    /\ w_detected # None
    /\ SameKey(current, w_detected)
    /\ ~ShouldExclude(compiled_rules, w_detected)

C9_Pause ==
    /\ [](paused => current = None)
    /\ [][/\ (~paused /\ paused') =>
                 /\ current' = None
                 /\ NewRows = IF current # None /\ wall > current.start_ts
                              THEN <<Written(current, wall)>> ELSE <<>>
          /\ paused => (sessions' = sessions /\ current' = None)
         ]_vars

\* paused, with a session that ends after the last tick: set_paused wrote it
C9_Witness ==
    /\ paused
    /\ ~stop_event
    /\ stop_pc = "idle"
    /\ last_wall_ts # Nil
    /\ sessions # <<>>
    /\ sessions[Len(sessions)].end_ts > last_wall_ts

\* the timestamps a flush can be called with in this state
FlushTimes ==
    {wall, w_now_wall} \cup (IF current = None THEN {}
                             ELSE {current.start_ts, current.start_ts + 1})

\* C10: a flush right after a flush changes nothing, so the two write at most
\* one session; and a flush with no open segment changes nothing.
C10_FlushIdempotent ==
    \A t1, t2 \in FlushTimes :
        LET a == FlushLocked(Engine, t1)
            b == FlushLocked(a, t2)
        IN  /\ b = a
            /\ Len(a.store) <= Len(sessions) + 1
            /\ current = None => a = Engine

\* a segment is open that a flush now would write
C10_Witness == current # None /\ wall > current.start_ts /\ sessions # <<>>

\* stop() has returned, the worker has exited and start() was not called since
Stopped == stop_event /\ stop_pc = "idle" /\ thread = "dead"

\* C11 as claimed: once stop() has returned and the worker has exited, the
\* engine holds no open segment.
C11_NoOpenAfterStop == Stopped => current = None

\* the worker is inside its critical section
InCriticalSection == w_pc \in {"flush", "open"}

\* C12: status() runs only while no tick is inside its critical section, so
\* its snapshot is the engine's state outside the critical section; inside
\* it, the part that flushes the closed segment writes that segment's
\* session (if longer than zero) before the part that assigns the new
\* segment, and that part writes nothing.
C12_StatusAtomic ==
    /\ [](InCriticalSection <=> lock = "worker")
    /\ [][/\ status_snapshot' # status_snapshot =>
                /\ ~InCriticalSection
                /\ status_snapshot' = StatusOf(thread = "alive", paused, current,
                                               last_idle_seconds, sleep_segments,
                                               excluded_matches)
          /\ (w_pc = "flush" /\ w_pc' = "open" /\ current # None /\ w_open' # None) =>
                /\ current' = None
                /\ NewRows = IF w_now_wall > current.start_ts
                             THEN <<Written(current, w_now_wall)>> ELSE <<>>
          /\ (current' # None /\ current' # current) =>
                /\ w_pc = "open"
                /\ sessions' = sessions
         ]_vars

\* a snapshot shows the segment opened at a boundary, and the session of the
\* segment closed at that boundary is in the store
C12_Witness ==
    /\ status_snapshot # None
    /\ status_snapshot.current # None
    /\ \E i \in DOMAIN sessions :
          /\ sessions[i].end_ts = status_snapshot.current.start_ts
          /\ sessions[i].app # status_snapshot.current.app

\* C13: the filter's compiled list changes only by being replaced, in one
\* step, by the complete list update_rules built from the rules it was
\* given; so the list a concurrent match copies is the complete old list or
\* the complete new one, and a tick's exclusion is decided by such a list.
C13_AtomicReplace ==
    [][/\ compiled_rules' # compiled_rules =>
             \E h \in Requests :
                 /\ h_pc[h] = "update"
                 /\ h_i[h] > Len(h_rows[h])
                 /\ compiled_rules' = UpdateRules(h_rows[h])
       /\ (TickStep /\ ~paused /\ w_detected # None) =>
             /\ compiled_rules' = compiled_rules
             /\ (excluded_matches' = excluded_matches + 1)
                    <=> IsExcluded(compiled_rules, w_detected.app, w_detected.title)
      ]_vars

\* a tick is about to match Deezer against the old, empty list while
\* update_rules has compiled the first of two rules
C13_Witness ==
    /\ w_pc = "lock"
    /\ w_detected = WDeezer
    /\ compiled_rules = <<>>
    /\ \E h \in Requests :
          /\ h_pc[h] = "update"
          /\ Len(h_rows[h]) = 2
          /\ h_i[h] = 2
          /\ Len(h_compiled[h]) = 1

\* a restore is between its forced pause and the end of its bulk insert
RestoreWriting == \E h \in Requests : h_pc[h] \in {"r_clear", "r_bulk"}

\* C14 as claimed: while a restore is between its forced pause and the end
\* of its clear and bulk-insert steps, no step other than the restore's own
\* changes the sessions table.
C14_NoEngineWriteDuringRestore ==
    [][(RestoreWriting /\ h_pc' = h_pc) => sessions' = sessions]_vars

\* the label is neither empty, nor blank, nor the unknown label in any case
LabelOk(app) == Strip(app) # <<>> /\ Casefold(Strip(app)) # DesconocidoFolded

\* the step is a call of the store that returned: where the store is called
\* directly, every step but the clock's is a call and records its result
Call(name) == wall' = wall /\ db_result' # None /\ db_result'.call = name

PositiveDuration(r) == r.end_ts > r.start_ts

\* C15: every row a step appends to the sessions table has a label that is
\* not empty, blank or the unknown label; so has every row a read returns,
\* also when the table holds a row with the unknown label; and
\* bulk_insert_sessions stores the stripped label, or the sentinel label
\* where the label was empty, blank or the unknown label.
C15_AppLabelNormalized ==
    /\ [](db_result # None /\ db_result.call \in {"overlapping_sessions", "all_sessions"}
            => \A k \in DOMAIN db_result.value : LabelOk(db_result.value[k].app))
    /\ [][/\ \A k \in DOMAIN NewRows : LabelOk(NewRows[k].app)
          /\ Call("bulk_insert_sessions") =>
                LET valid == SelectSeq(db_result'.args, PositiveDuration)
                IN  /\ Len(NewRows) = Len(valid)
                    /\ \A k \in DOMAIN valid :
                          NewRows[k].app = IF LabelOk(valid[k].app)
                                           THEN Strip(valid[k].app) ELSE Proceso
         ]_vars

\* a read returned the sentinel label for a stored row with the unknown
\* label, and an inserted row carries the sentinel label
C15_Witness ==
    /\ db_result # None
    /\ db_result.call = "all_sessions"
    /\ \E k \in DOMAIN db_result.value :
          /\ db_result.value[k].id \in DOMAIN sessions
          /\ db_result.value[k].app = Proceso
          /\ ~LabelOk(sessions[db_result.value[k].id].app)
    /\ \E i \in DOMAIN sessions : sessions[i].source = Restore /\ sessions[i].app = Proceso

\* C19: overlapping_sessions(a, b) returns each stored session with
\* end_ts > a and start_ts < b once, with the stored times, and no other
\* session, in ascending start_ts order; a session with end_ts = a or
\* start_ts = b is not returned.
C19_OverlappingExact ==
    [][Call("overlapping_sessions") =>
          LET a == db_result'.args[1]
              b == db_result'.args[2]
              res == db_result'.value
          IN  /\ \A i \in DOMAIN sessions :
                    (sessions[i].end_ts > a /\ sessions[i].start_ts < b)
                        <=> (\E k \in DOMAIN res : res[k].id = i)
              /\ \A k \in DOMAIN res :
                    /\ res[k].id \in DOMAIN sessions
                    /\ res[k].start_ts = sessions[res[k].id].start_ts
                    /\ res[k].end_ts = sessions[res[k].id].end_ts
              /\ \A j \in DOMAIN res, k \in DOMAIN res :
                    j < k => res[j].start_ts <= res[k].start_ts /\ res[j].id # res[k].id
              /\ \A i \in DOMAIN sessions :
                    (sessions[i].end_ts = a \/ sessions[i].start_ts = b)
                        => \A k \in DOMAIN res : res[k].id # i
     ]_vars

\* a query returned a session while the table holds one that only touches
\* the range at an endpoint, which was not returned
C19_Witness ==
    /\ db_result # None
    /\ db_result.call = "overlapping_sessions"
    /\ db_result.value # <<>>
    /\ \A k \in DOMAIN db_result.value : db_result.value[k].id \in DOMAIN sessions
    /\ \E i \in DOMAIN sessions :
          /\ \/ sessions[i].end_ts = db_result.args[1]
             \/ sessions[i].start_ts = db_result.args[2]
          /\ \A k \in DOMAIN db_result.value : db_result.value[k].id # i

\* C20: bulk_insert_sessions(rows) appends the rows with end_ts > start_ts,
\* in their order, each with its app label normalized and nothing else
\* changed, leaves the stored rows as they were, and returns the number of
\* rows it appended; a row with end_ts <= start_ts is skipped and the rows
\* after it are still inserted.
C20_BulkInsertExact ==
    [][Call("bulk_insert_sessions") =>
          LET valid == SelectSeq(db_result'.args, PositiveDuration)
          IN  /\ Len(sessions') = Len(sessions) + Len(valid)
              /\ SubSeq(sessions', 1, Len(sessions)) = sessions
              /\ \A k \in DOMAIN valid :
                    NewRows[k] = SessionRow(valid[k].start_ts, valid[k].end_ts,
                                            NormalizeAppLabel(valid[k].app),
                                            valid[k].title, valid[k].source)
              /\ db_result'.value = Len(valid)
     ]_vars

\* a batch whose first row has no duration was handed in and its second
\* row was inserted under the sentinel label
C20_Witness ==
    /\ db_result # None
    /\ db_result.call = "bulk_insert_sessions"
    /\ Len(db_result.args) = 2
    /\ ~PositiveDuration(db_result.args[1])
    /\ db_result.value = 1
    /\ sessions # <<>>
    /\ sessions[Len(sessions)].app = Proceso

SameRuleKey(a, b) == a.scope = b.scope /\ a.match_mode = b.match_mode /\ a.pattern = b.pattern

\* the stored rule with the key the payload normalizes to, if there is one
StoredUnder(p) ==
    {r \in privacy_rules : /\ [value |-> r.scope] = NormalizeRuleScope(p.scope)
                           /\ [value |-> r.match_mode] = NormalizeMatchMode(p.match_mode)
                           /\ [value |-> r.pattern] = NormalizeRulePattern(p.pattern)}

\* C17: in every state the upsert, enable/disable, delete and clear calls
\* reach, no two stored rules share (scope, match_mode, pattern); and an
\* upsert whose normalized key is stored leaves every other rule as it was
\* and replaces the stored rule by itself with the call's enabled flag and
\* the time of the call, under the id it had, which is the row it returns.
C17_UniqueKeyUpsertKeepsId ==
    /\ [](\A a \in privacy_rules, b \in privacy_rules : SameRuleKey(a, b) => a = b)
    /\ [][Call("upsert_privacy_rule") /\ StoredUnder(db_result'.args) # {} =>
             LET p == db_result'.args
                 old == CHOOSE r \in StoredUnder(p) : TRUE
                 new == [old EXCEPT !.enabled = p.enabled, !.updated_ts = wall]
             IN  /\ privacy_rules' = (privacy_rules \ {old}) \cup {new}
                 /\ new.id = old.id
                 /\ db_result'.value = new
                 /\ next_rule_id' = next_rule_id
         ]_vars

\* the rule was stored enabled at time 0 with id 1, disabled, and an upsert
\* of its key written with blanks and capitals at time 1 returned it with
\* id 1, while a second rule is stored
C17_Witness ==
    /\ db_result # None
    /\ db_result.call = "upsert_privacy_rule"
    /\ db_result.args.scope # ScopeApp
    /\ db_result.value # ValueError
    /\ db_result.value.id = 1
    /\ db_result.value.updated_ts = 1
    /\ db_result.value \in privacy_rules
    /\ Cardinality(privacy_rules) = 2

\* the rule input is invalid: an unknown scope, an unknown match mode, an
\* empty pattern, or a regex that does not compile
InvalidRuleInput(p) ==
    \/ NormalizeRuleScope(p.scope) = ValueError
    \/ NormalizeMatchMode(p.match_mode) = ValueError
    \/ NormalizeRulePattern(p.pattern) = ValueError
    \/ /\ NormalizeMatchMode(p.match_mode) = [value |-> ModeRegex]
       /\ ~RegexCompiles(Strip(p.pattern))

\* C16: an upsert with invalid rule input - an empty pattern, an unknown
\* scope, an unknown match mode or an unparseable regex - raises an error
\* and leaves the stored rules and the compiled snapshot as they were.
C16_InvalidInputRejected ==
    [][Call("upsert_privacy_rule") /\ InvalidRuleInput(db_result'.args) =>
          /\ db_result'.value = ValueError
          /\ privacy_rules' = privacy_rules
          /\ compiled_rules' = compiled_rules
     ]_vars

\* C18: when no rule-mutating request is under way, the rules of the
\* filter's compiled snapshot are the stored rules that are enabled and
\* compile - also when two requests ran at the same time.
C18_SnapshotFreshWhenQuiet ==
    (\A h \in Requests : h_pc[h] = "idle")
        => {compiled_rules[k].rule : k \in DOMAIN compiled_rules}
              = {r \in privacy_rules : Compilable(r)}

\* how often x occurs in the sequence s
Occurrences(s, x) == Cardinality({i \in DOMAIN s : s[i] = x})

RuleContent(r) ==
    [scope |-> r.scope, match_mode |-> r.match_mode, pattern |-> r.pattern,
     enabled |-> r.enabled]

\* C21: after a restore with replace of an exported payload, every listing
\* all_sessions may return holds each exported (start_ts, end_ts, app,
\* title, source) tuple as often as the payload does and nothing else, the
\* category table holds the payload's (app, category) pairs, the rule
\* table holds the payload's (scope, match_mode, pattern, enabled) rules
\* and no other, and inserted_sessions is the number of exported sessions.
C21_BackupRoundTrip ==
    [][Call("restore_backup") =>
          LET p == db_result'.args
          IN  /\ \A rows \in AllSessions(sessions') :
                    /\ Len(rows) = Len(p.sessions)
                    /\ \A k \in DOMAIN p.sessions :
                          Occurrences(SessionsPayload(rows), p.sessions[k])
                              = Occurrences(p.sessions, p.sessions[k])
              /\ app_categories' = {p.categories[k] : k \in DOMAIN p.categories}
              /\ {RuleContent(r) : r \in privacy_rules'}
                    = {RuleContent(p.privacy_rules[k]) : k \in DOMAIN p.privacy_rules}
              /\ Cardinality(privacy_rules') = Len(p.privacy_rules)
              /\ db_result'.value.inserted_sessions = Len(p.sessions)
     ]_vars

\* a restore of an export with a session the detector produced, a session
\* stored under the unknown label, a category and a rule
C21_Witness ==
    /\ db_result # None
    /\ db_result.call = "restore_backup"
    /\ db_result.value.inserted_sessions = 2
    /\ \E i, j \in DOMAIN sessions : sessions[i].source = X11 /\ sessions[j].app = Proceso
    /\ app_categories # {}
    /\ privacy_rules # {}

\* an enabled rule of the store matches the window
RuleHides(win) ==
    \E r \in privacy_rules : Compilable(r) /\ ItemMatches(CompiledRule(r), win.app, win.title)

\* the payload of every hidden window
HiddenPayload ==
    [app |-> Privado, title |-> OcultoPorRegla, source |-> PrivacySource,
     pid |-> <<>>, window_id |-> <<>>, private |-> TRUE]

\* two reported windows are the same, or both are hidden by a rule
SameButHidden(a, b) == a = b \/ (a # None /\ b # None /\ RuleHides(a) /\ RuleHides(b))

NoneTick == TickStep /\ ~paused /\ Normalized = None

\* the sessions the step writes that are not sleep rows
WrittenRows == SelectSeq(NewRows, NotSleepRow)

\* the step writes the session of the open segment ended at end_ts, when
\* that is later than its start, and no other
FlushedAt(end_ts) ==
    current # None =>
        WrittenRows = IF end_ts > current.start_ts THEN <<Written(current, end_ts)>>
                      ELSE <<>>

\* C23 as claimed: a non-paused tick whose observation is none flushes the
\* open segment with end_ts equal to the tick's timestamp, leaves no segment
\* open and leaves the worker in its loop.
C23_AsClaimed ==
    [][NoneTick =>
          /\ FlushedAt(w_now_wall)
          /\ current' = None
          /\ thread' = "alive" /\ w_pc' = "top"
     ]_vars

\* C23 (amended): a non-paused tick whose observation is none flushes the
\* open segment, at the tick's timestamp when no sleep gap is detected and
\* at the gap's start when one is, leaves no segment open, and leaves the
\* worker alive at the head of its loop, from where the next tick runs.
C23_DetectorFailureNotFatal ==
    [][NoneTick =>
          /\ FlushedAt(IF GapDetected THEN SleepGap[1] ELSE w_now_wall)
          /\ current' = None
          /\ thread' = "alive" /\ w_pc' = "top"
     ]_vars

\* a tick has closed the Editor segment at its timestamp and a later tick
\* is under way
C23_Witness ==
    /\ thread = "alive"
    /\ ~paused
    /\ current = None
    /\ w_pc = "detect"
    /\ sleep_segments = 0
    /\ last_wall_ts # Nil
    /\ Len(sessions) = 1
    /\ sessions[1] = SessionRow(0, last_wall_ts, WEditor.app, WEditor.title, X11)

\* the tick is not paused and its observation, not excluded, has the
\* unattributed label and an empty title
UnidentifiedTick ==
    /\ TickStep
    /\ ~paused
    /\ Normalized # None
    /\ ~ShouldExclude(compiled_rules, Normalized)
    /\ Normalized.app = Proceso
    /\ Normalized.title = <<>>

\* C24 as claimed: a non-paused tick whose non-excluded observation has the
\* unattributed label and an empty title leaves the open segment and the
\* store unchanged.
C24_AsClaimed ==
    [][UnidentifiedTick => current' = current /\ sessions' = sessions]_vars

\* C24 (amended): such a tick leaves the open segment and the store
\* unchanged when it detects no sleep gap, and never opens a segment; when
\* it detects a sleep gap, the open segment is flushed at the gap's start,
\* the sleep session is written and no segment is open after the tick.
C24_UnidentifiedSuppressed ==
    [][UnidentifiedTick =>
          /\ ~GapDetected => current' = current /\ sessions' = sessions
          /\ GapDetected =>
                /\ current' = None
                /\ FlushedAt(SleepGap[1])
                /\ Len(NewRows) = Len(WrittenRows) + 1
          /\ current = None => current' = None
     ]_vars

\* a tick that detects no sleep gap is about to ingest the unattributed
\* observation while a segment opened at an earlier tick is open
C24_Witness ==
    /\ thread = "alive"
    /\ w_pc = "lock"
    /\ ~paused
    /\ w_detected = WProceso
    /\ ~GapDetected
    /\ current # None
    /\ last_wall_ts # Nil
    /\ current.start_ts < w_now_wall

\* the tick is not paused and its identified, non-excluded observation
\* differs from the open segment in app, title or source
ChangeTick ==
    /\ TickStep
    /\ ~paused
    /\ current # None
    /\ Normalized # None
    /\ ~ShouldExclude(compiled_rules, Normalized)
    /\ ~IsUnidentified(Normalized)
    /\ ~SameKey(current, Normalized)

\* the segment the tick opens for its observation
Reopened ==
    CurrentSession(Normalized.app, Normalized.title, Normalized.source, w_now_wall)

\* C25 as claimed: on such a tick the session of the open segment is
\* written with end_ts equal to the tick's timestamp, and the new open
\* segment is the observation with start_ts equal to the tick's timestamp.
C25_AsClaimed ==
    [][ChangeTick =>
          /\ WrittenRows = <<Written(current, w_now_wall)>>
          /\ current' = Reopened
     ]_vars

\* C25 (amended): on such a tick the open segment is flushed, with end_ts
\* equal to the tick's timestamp when no sleep gap is detected and to the
\* gap's start when one is, its session being written only when that end_ts
\* is later than its start_ts; the new open segment is the observation with
\* start_ts equal to the tick's timestamp.
C25_CloseAndReopen ==
    [][ChangeTick =>
          /\ FlushedAt(IF GapDetected THEN SleepGap[1] ELSE w_now_wall)
          /\ current' = Reopened
     ]_vars

\* the Editor session ends at the second at which the open Deezer segment
\* starts
C25_Witness ==
    /\ thread = "alive"
    /\ ~paused
    /\ w_pc = "top"
    /\ sleep_segments = 0
    /\ current # None
    /\ current.app = WDeezer.app
    /\ current.start_ts = last_wall_ts
    /\ Len(sessions) = 1
    /\ sessions[1] = SessionRow(0, current.start_ts, WEditor.app, WEditor.title, X11)

\* the tick's idle reading is in [effectiveIdleThreshold, idleThreshold)
IdleAdjacentReading ==
    /\ w_idle # Nil
    /\ w_idle >= effective_idle_seconds
    /\ w_idle < idle_threshold_seconds

\* the detector reports the window of the open segment, which carries the
\* source tag src
SameWindowOpen(src) ==
    /\ TickStep
    /\ current # None
    /\ w_detected # None
    /\ current.app = w_detected.app
    /\ current.title = w_detected.title
    /\ current.source = src

\* C26: while the detected window stays the same, a tick whose idle reading
\* has moved into [effectiveIdleThreshold, idleThreshold) closes the open
\* segment at its timestamp and opens one with the same app and title and
\* the source suffixed ':idle'; a tick whose reading has moved back below
\* effectiveIdleThreshold closes that segment and opens one with the
\* unsuffixed source.
C26_IdleAdjacentBoundary ==
    [][/\ (SameWindowOpen(w_detected.source) /\ IdleAdjacentReading) =>
              /\ FlushedAt(w_now_wall)
              /\ current' = CurrentSession(w_detected.app, w_detected.title,
                                           w_detected.source \o IdleSuffix, w_now_wall)
       /\ (/\ SameWindowOpen(w_detected.source \o IdleSuffix)
           /\ w_idle # Nil
           /\ w_idle < effective_idle_seconds) =>
              /\ FlushedAt(w_now_wall)
              /\ current' = CurrentSession(w_detected.app, w_detected.title,
                                           w_detected.source, w_now_wall)
      ]_vars

\* the Editor window was recorded as active up to the second from which it
\* is recorded as idle-adjacent
C26_Witness ==
    /\ thread = "alive"
    /\ ~paused
    /\ current # None
    /\ current.app = WEditor.app
    /\ current.title = WEditor.title
    /\ current.source = X11 \o IdleSuffix
    /\ last_idle_seconds = effective_idle_seconds
    /\ Len(sessions) = 1
    /\ sessions[1] = SessionRow(0, current.start_ts, WEditor.app, WEditor.title, X11)

\* the tick is not paused and the filter excludes its observation
ExcludedTick ==
    /\ TickStep
    /\ ~paused
    /\ Normalized # None
    /\ ShouldExclude(compiled_rules, Normalized)

\* C27 as claimed: a non-paused tick whose observation matches an enabled
\* rule flushes the open segment with end_ts equal to the tick's timestamp,
\* leaves no segment open and adds one to the exclusion counter; every
\* other step leaves the counter unchanged.
C27_AsClaimed ==
    [][IF ExcludedTick
       THEN /\ FlushedAt(w_now_wall)
            /\ current' = None
            /\ excluded_matches' = excluded_matches + 1
       ELSE excluded_matches' = excluded_matches
      ]_vars

\* C27 (amended): such a tick flushes the open segment, at the tick's
\* timestamp when no sleep gap is detected and at the gap's start when one
\* is, leaves no segment open and adds exactly one to the exclusion
\* counter; every other tick, set_paused, stop, status and the rule
\* requests leave the counter unchanged.
C27_ExclusionCounted ==
    [][IF ExcludedTick
       THEN /\ FlushedAt(IF GapDetected THEN SleepGap[1] ELSE w_now_wall)
            /\ current' = None
            /\ excluded_matches' = excluded_matches + 1
       ELSE excluded_matches' = excluded_matches
      ]_vars

\* a tick has counted an exclusion and closed the Editor segment at its
\* timestamp
C27_Witness ==
    /\ thread = "alive"
    /\ ~paused
    /\ w_pc = "top"
    /\ excluded_matches = 1
    /\ current = None
    /\ sleep_segments = 0
    /\ compiled_rules # <<>>
    /\ Len(sessions) = 1
    /\ sessions[1] = SessionRow(0, last_wall_ts, WEditor.app, WEditor.title, X11)

\* the step is the final flush of stop()
StopFlushStep == stop_pc = "flush" /\ stop_pc' = "idle"

\* the step is a call of set_paused
SetPausedStep ==
    /\ UNCHANGED <<wall, mono, thread, w_pc, stop_pc>>
    /\ db_result' # None
    /\ db_result'.call = "set_paused"

\* the step flushes the open segment with a write the store rejects: the
\* segment is longer than zero at the flush timestamp and the store is down
RejectedFlush ==
    /\ current # None
    /\ db_result' # None
    /\ ~db_result'.args.store_up
    /\ \/ /\ TickStep
          /\ StepFlushTs > current.start_ts
          /\ \/ paused
             \/ GapDetected
             \/ Normalized = None
             \/ ShouldExclude(compiled_rules, Normalized)
             \/ ~IsUnidentified(Normalized) /\ ~SameKey(current, Normalized)
       \/ SetPausedStep /\ paused' /\ wall > current.start_ts
       \/ StopFlushStep /\ wall > current.start_ts

\* C28: when the write of a flush raises, the open segment stays in place
\* with its start_ts, nothing is stored, a close-and-reopen tick opens no
\* new segment, and the call that triggered the flush (the tick of _run,
\* set_paused, stop) ends with the store's exception.
C28_FailedFlushKeepsSegment ==
    [][RejectedFlush =>
          /\ current' = current
          /\ sessions' = sessions
          /\ db_result'.value = StoreError
          /\ db_result'.call = IF TickStep THEN "_run"
                               ELSE IF StopFlushStep THEN "stop" ELSE "set_paused"
     ]_vars

\* the tick that observed Editor while the Deezer segment was open raised,
\* and the Deezer segment is still open with its start
C28_Witness ==
    /\ db_result # None
    /\ db_result.call = "_run"
    /\ db_result.value = StoreError
    /\ ~paused
    /\ current = CurrentSession(WDeezer.app, WDeezer.title, X11, 0)
    /\ w_now_wall > 0
    /\ last_wall_ts < w_now_wall
    /\ sessions = <<>>

\* the tick's flush raised
FailedTick ==
    /\ TickStep
    /\ db_result' # None
    /\ db_result'.call = "_run"
    /\ db_result'.value = StoreError

\* C29: after a tick whose flush raised, the tick loop keeps running (the
\* worker thread is alive, at the head of its loop), and a later tick whose
\* observation differs from the retained segment, on a store that accepts
\* the write, writes the segment's session from its original start_ts.
C29_RetryOnNextBoundary ==
    [][/\ FailedTick => thread' = "alive" /\ w_pc' = "top"
       /\ (ChangeTick /\ db_result' # None /\ db_result'.args.store_up) =>
              FlushedAt(w_now_wall)
      ]_vars

\* the positions of the compiled rules that match the pair
MatchingPositions(app, title) ==
    {i \in DOMAIN compiled_rules : ItemMatches(compiled_rules[i], app, title)}

\* C30: update_rules, when it returns, keeps the enabled rules with a
\* usable pattern in the order they were given; match_reason returns the rule at the first
\* position of that list that matches the (app, title) pair, or none when
\* no position matches; is_excluded is true exactly when match_reason
\* returns a rule.
C30_FirstMatchWins ==
    [][/\ (Call("update_rules") /\ db_result'.value = None) =>
              LET kept == SelectSeq(db_result'.args, Compilable)
              IN  /\ Len(compiled_rules') = Len(kept)
                  /\ \A k \in DOMAIN kept : compiled_rules'[k].rule = kept[k]
       /\ Call("match_reason") =>
              LET a == db_result'.args
                  v == db_result'.value
                  M == MatchingPositions(a.app, a.title)
              IN  /\ M = {} => v.reason = None
                  /\ M # {} =>
                        \E i \in M : /\ \A j \in M : i <= j
                                     /\ v.reason = compiled_rules[i].rule
                  /\ v.excluded <=> v.reason # None
      ]_vars

\* two compiled rules match the pair, the first of them was given before
\* a rule with a smaller id, and it is the reason
C30_Witness ==
    /\ db_result # None
    /\ db_result.call = "match_reason"
    /\ Len(compiled_rules) >= 2
    /\ {1, 2} \subseteq MatchingPositions(db_result.args.app, db_result.args.title)
    /\ compiled_rules[1].rule.id > compiled_rules[2].rule.id
    /\ db_result.value.reason = compiled_rules[1].rule
    /\ db_result.value.excluded

\* the field of the pair that the rule's scope selects
ScopedField(rule, app, title) == IF rule.scope = ScopeTitle THEN title ELSE app

\* C31: a compiled rule is compared only with the field its scope selects
\* (two pairs with the same selected field are matched alike, whatever the
\* other field holds), it never matches a pair whose selected field is
\* empty or blank, and match_reason never returns a rule for such a field.
C31_ScopedFieldOnly ==
    [][Call("match_reason") =>
          LET a == db_result'.args
              v == db_result'.value
          IN  /\ \A i \in DOMAIN compiled_rules :
                    LET item == compiled_rules[i]
                    IN  /\ Strip(ScopedField(item.rule, a.app, a.title)) = <<>> =>
                              ~ItemMatches(item, a.app, a.title)
                        /\ \A pair \in FilterPairs :
                              ScopedField(item.rule, pair[1], pair[2])
                                  = ScopedField(item.rule, a.app, a.title)
                              => (ItemMatches(item, pair[1], pair[2])
                                     <=> ItemMatches(item, a.app, a.title))
              /\ v.reason # None =>
                    Strip(ScopedField(v.reason, a.app, a.title)) # <<>>
     ]_vars

\* the filter was asked about a pair with an empty title while its first
\* rule is the title rule whose regex matches every string: that rule is
\* passed over and an app rule behind it is the reason
C31_Witness ==
    /\ db_result # None
    /\ db_result.call = "match_reason"
    /\ db_result.args.title = <<>>
    /\ Len(compiled_rules) >= 2
    /\ compiled_rules[1].rule.scope = ScopeTitle
    /\ compiled_rules[1].rule.match_mode = ModeRegex
    /\ db_result.value.reason = compiled_rules[2].rule
    /\ compiled_rules[2].rule.scope = ScopeApp


\* the rule is one the snapshot is said to keep: enabled, with a non-empty
\* trimmed pattern, and in regex mode a pattern that compiles
KeptRule(rule) ==
    /\ rule.enabled
    /\ Strip(rule.pattern) # <<>>
    /\ rule.match_mode = ModeRegex =>
          /\ RegexCompiles(Strip(rule.pattern))
          /\ ~RegexOverflows(Strip(rule.pattern))

\* C32: update_rules never raises on bad rules: every call returns, and
\* after it the compiled snapshot holds exactly the input rules that are
\* enabled, have a non-empty trimmed pattern and (in regex mode) compile, in
\* input order.
C32_UpdateRulesNeverRaises ==
    [][Call("update_rules") =>
          LET kept == SelectSeq(db_result'.args, KeptRule)
          IN  /\ db_result'.value = None
              /\ Len(compiled_rules') = Len(kept)
              /\ \A i \in DOMAIN kept : compiled_rules'[i].rule = kept[i]]_vars

\* the worker is between its clock readings and the critical section: inside
\* detect() or the idle read, or about to take the lock
InDetector == thread = "alive" /\ w_pc \in {"detect", "lock"}

\* C33: the engine lock is never held while the worker is inside the
\* detector or the idle read; in every such state status() and set_paused()
\* can take the lock and complete, and so can the final flush of a stop()
\* that has reached it (the flushing calls as long as the modelled store has
\* room for the row they write).
C33_LockFreeDuringDetect ==
    InDetector =>
        /\ lock = "free"
        /\ ENABLED Status
        /\ ENABLED SetPaused(FALSE)
        /\ Len(sessions) < MaxSessions =>
              /\ ENABLED SetPaused(TRUE)
              /\ stop_pc = "flush" => ENABLED StopFlush

\* the worker is blocked in the detector with a segment open, and a stop()
\* whose join timed out is at its final flush
C33_Witness ==
    /\ thread = "alive"
    /\ w_pc = "detect"
    /\ stop_pc = "flush"
    /\ current # None
    /\ lock = "free"

\* C34: ticks never overlap: under any sequence of start() and stop() calls
\* at most one thread executes the tick loop, and it is the one
\* self._thread names; start() while that thread is alive starts no other.
C34_SingleWorker ==
    /\ live_workers <= 1
    /\ live_workers = (IF thread = "alive" THEN 1 ELSE 0)

\* stop() has returned after a join that timed out: the event is set and the
\* worker is still blocked in the detector, where a start() finds it alive
C34_Witness ==
    /\ stop_pc = "idle"
    /\ stop_event
    /\ thread = "alive"
    /\ w_pc = "detect"
    /\ live_workers = 1

\* C37: the engine can be restarted: once a start() that follows a returned
\* stop() has been called, a worker is alive, also when stop()'s join timed
\* out because the old worker was still blocked in the detector.
C37_RestartYieldsWorker ==
    stop_pc = "restarted" => thread = "alive"

\* the step is the return of collect_segments
CollectReturns == h_pc[1] = "c_status" /\ h_pc'[1] = "idle"

\* the synthetic row of the result shares time with one of its persisted rows
DoubleCounted(result) ==
    /\ result.value.synthetic # None
    /\ \E k \in DOMAIN result.args :
          /\ result.args[k].start_ts < result.value.synthetic.end_ts
          /\ result.value.synthetic.start_ts < result.args[k].end_ts

\* C36: a report never counts the same time twice: in one collect_segments
\* result the synthetic segment built from the engine's open segment does not
\* overlap any persisted session the store query of that report returned.
C36_NoDoubleCount ==
    [][CollectReturns => ~DoubleCounted(db_result')]_vars

\* C40: collect_segments appends the synthetic in-progress segment only if
\* the filter, as it is when the report reads the engine's status, does not
\* exclude the open segment's app and title; this holds also for a rule
\* enabled after the segment was opened.
C40_SyntheticNotExcluded ==
    [][CollectReturns =>
          LET r == db_result'.value
          IN  r.synthetic # None =>
                 /\ r.current # None
                 /\ ~IsExcluded(compiled_rules, r.current.app, r.current.title)
                 /\ r.synthetic.app = r.current.app
                 /\ r.synthetic.title = r.current.title]_vars

\* a report made while a segment is open that the filter excludes, the rule
\* having been stored after the segment was opened: nothing was appended
C40_Witness ==
    /\ db_result # None
    /\ db_result.call = "collect_segments"
    /\ db_result.value.current # None
    /\ db_result.value.current.start_ts < db_result.value.now_ts
    /\ db_result.value.synthetic = None
    /\ IsExcluded(compiled_rules, db_result.value.current.app,
                  db_result.value.current.title)
    /\ \E rule \in privacy_rules :
          rule.enabled /\ rule.updated_ts > db_result.value.current.start_ts

\* the step is the return of restore_backup, normal or with an error
RestoreReturns == h_pc[1] = "r_resume" /\ h_pc'[1] = "idle"

\* the user's last control request asked for a pause
PauseRequested == db_result # None /\ db_result.args = TRUE

\* C35: a restore never resumes an engine the user paused: when the user's
\* last control request, made before the restore or while it ran, is a
\* pause, the flag is set when restore_backup returns; when the engine was
\* running as the restore began and no pause was requested, it is running
\* when restore_backup returns.
C35_RestoreKeepsUserPause ==
    [][RestoreReturns =>
          /\ PauseRequested => paused'
          /\ (~h_was_paused[1] /\ ~PauseRequested) => ~paused']_vars

\* the rows the step appends that are sleep sessions
SleepRows == SelectSeq(NewRows, LAMBDA r : r.source = SleepSource)

SleepSessions(table) == {i \in DOMAIN table : table[i].source = SleepSource}

\* C39: the sleep counter, and with it every status() reading of it, equals
\* the number of sleep-tagged sessions the engine has written; every such
\* session ends after it starts; the counter changes and a sleep session is
\* written only on a tick of the running engine whose wall-minus-monotonic
\* divergence since the previous tick is at least sleep_gap_seconds, and
\* then by exactly one each.
C39_SleepCounterExact ==
    [][/\ sleep_segments' = Cardinality(SleepSessions(sessions'))
       /\ \A i \in SleepSessions(sessions') : sessions'[i].end_ts > sessions'[i].start_ts
       /\ status_snapshot' # status_snapshot =>
             status_snapshot'.sleep_segments = Cardinality(SleepSessions(sessions'))
       /\ (sleep_segments' # sleep_segments \/ SleepRows # <<>>) =>
             /\ TickStep
             /\ ~paused
             /\ last_wall_ts # Nil
             /\ (w_now_wall - last_wall_ts) - (w_now_mono - last_mono_ts)
                   >= sleep_gap_seconds
             /\ Len(SleepRows) = 1
             /\ sleep_segments' = sleep_segments + 1]_vars

\* status() has reported one sleep segment, and the table holds the one
\* sleep session, longer than zero
C39_Witness ==
    /\ status_snapshot # None
    /\ status_snapshot.sleep_segments = 1
    /\ sleep_segments = 1
    /\ \E i \in DOMAIN sessions :
          /\ sessions[i].source = SleepSource
          /\ sessions[i].end_ts - sessions[i].start_ts >= sleep_gap_seconds

====
